---- MODULE Spec2Model ----
(***************************************************************************)
(* GreenCode_Checker: the pattern-based source analyzer (analyzer.py), the *)
(* security scan (security_checker.py) and their scoring functions, as a   *)
(* state machine over the calls a client makes on the analyzer objects.    *)
(*                                                                         *)
(* A source text is the sequence of its physical lines (what               *)
(* code.split('\n') returns); a line is the sequence of its lexical        *)
(* tokens, white space included, and Chars gives each token's characters,  *)
(* so that Text(line) is the line's character string.  Regular expressions *)
(* and substring tests are computed on the characters; the parser works    *)
(* on the tokens.                                                          *)
(***************************************************************************)
EXTENDS Integers, Sequences, FiniteSets, TLC

VARIABLES
    code,         \* the source text handed to the next call (sequence of lines)
    self_issues,  \* CodeAnalyzer.issues, the analyzer's only instance field
    ret,          \* what the last call returned or raised
    ran,          \* the steps the last analyze call executed, in order
    args,         \* the argument a client prepares for a scoring function
    calls,        \* the outcomes of the analyze calls made so far on the analyzer
    calc,         \* the CarbonCalculator's instance fields
    repeated,     \* the last call repeated the call before it, on the same argument
    db,           \* the committed rows of the database behind a DatabaseManager
    tracker       \* a HistoryTracker in file-storage mode: history_data and its clock

vars == <<code, self_issues, ret, ran, args, calls, calc, repeated, db, tracker>>

-----------------------------------------------------------------------------
(* Characters and tokens *)

LowerCase == <<"a","b","c","d","e","f","g","h","i","j","k","l","m",
               "n","o","p","q","r","s","t","u","v","w","x","y","z">>
UpperCase == <<"A","B","C","D","E","F","G","H","I","J","K","L","M",
               "N","O","P","Q","R","S","T","U","V","W","X","Y","Z">>
Digits == {"0","1","2","3","4","5","6","7","8","9"}

Range(s) == {s[i] : i \in DOMAIN s}

\* \w of Python's re module on str (ASCII part)
WordChars == Range(LowerCase) \cup Range(UpperCase) \cup Digits \cup {"_"}
\* \s
SpaceChars == {" ", "\t", "\r", "\f"}

\* str.lower() on one character, as re.IGNORECASE compares
Lower(c) ==
    IF \E i \in DOMAIN UpperCase : UpperCase[i] = c
    THEN LowerCase[CHOOSE i \in DOMAIN UpperCase : UpperCase[i] = c]
    ELSE c

\* The characters of each token of the vocabulary.
Chars(t) ==
    CASE t = " "        -> <<" ">>
      [] t = "    "     -> <<" "," "," "," ">>
      [] t = "\r"       -> <<"\r">>
      [] t = "#"        -> <<"#">>
      [] t = "("        -> <<"(">>
      [] t = ")"        -> <<")">>
      [] t = ":"        -> <<":">>
      [] t = ";"        -> <<";">>
      [] t = "="        -> <<"=">>
      [] t = "."        -> <<".">>
      [] t = ","        -> <<",">>
      [] t = "'"        -> <<"'">>
      [] t = "3"        -> <<"3">>
      [] t = "x"        -> <<"x">>
      [] t = "i"        -> <<"i">>
      [] t = "f"        -> <<"f">>
      [] t = "os"       -> <<"o","s">>
      [] t = "as"       -> <<"a","s">>
      [] t = "in"       -> <<"i","n">>
      [] t = "def"      -> <<"d","e","f">>
      [] t = "for"      -> <<"f","o","r">>
      [] t = "len"      -> <<"l","e","n">>
      [] t = "list"     -> <<"l","i","s","t">>
      [] t = "pass"     -> <<"p","a","s","s">>
      [] t = "range"    -> <<"r","a","n","g","e">>
      [] t = "while"    -> <<"w","h","i","l","e">>
      [] t = "import"   -> <<"i","m","p","o","r","t">>
      [] t = "async"    -> <<"a","s","y","n","c">>
      [] t = "assert"   -> <<"a","s","s","e","r","t">>
      [] t = "eval"     -> <<"e","v","a","l">>
      [] t = "Eval"     -> <<"E","v","a","l">>
      [] t = "exec"     -> <<"e","x","e","c">>
      [] t = "user_input" -> <<"u","s","e","r","_","i","n","p","u","t">>
      [] t = "debug"     -> <<"d","e","b","u","g">>
      [] t = "True"      -> <<"T","r","u","e">>
      [] t = "random"    -> <<"r","a","n","d","o","m">>
      [] t = "choice"    -> <<"c","h","o","i","c","e">>
      [] t = "print"     -> <<"p","r","i","n","t">>
      [] t = "compile"   -> <<"c","o","m","p","i","l","e">>
      [] t = "subprocess" -> <<"s","u","b","p","r","o","c","e","s","s">>
      [] t = "run"       -> <<"r","u","n">>
      [] t = "shell"     -> <<"s","h","e","l","l">>
      [] t = "password"  -> <<"p","a","s","s","w","o","r","d">>
      [] t = "abc"       -> <<"a","b","c">>
      [] t = "1"         -> <<"1">>
      [] t = "item"      -> <<"i","t","e","m">>
      [] t = "enumerate" -> <<"e","n","u","m","e","r","a","t","e">>
      [] t = "append"    -> <<"a","p","p","e","n","d">>
      [] t = "Optimized" -> <<"O","p","t","i","m","i","z","e","d">>
      [] t = "Use"       -> <<"U","s","e">>
      [] t = "or"        -> <<"o","r">>
      [] t = "direct"    -> <<"d","i","r","e","c","t">>
      [] t = "iteration" -> <<"i","t","e","r","a","t","i","o","n">>
      [] t = "Consider"  -> <<"C","o","n","s","i","d","e","r">>
      [] t = "using"     -> <<"u","s","i","n","g">>
      [] t = "comprehension" -> <<"c","o","m","p","r","e","h","e","n","s","i","o","n">>
      \* a sum of some 3000 terms, 1+1+...+1: valid syntax, nested deeper
      \* than the parser's recursion limit
      [] t = "1+...+1"  -> <<"1","+","1">>

RECURSIVE Text(_)
\* the character string of a line
Text(line) == IF line = <<>> THEN <<>> ELSE Chars(Head(line)) \o Text(Tail(line))

RECURSIVE SeqMap(_, _)
\* applies Lower to every character
SeqMap(s, n) == IF n = 0 THEN <<>> ELSE Append(SeqMap(s, n - 1), Lower(s[n]))

LowerText(s) == SeqMap(s, Len(s))

\* s[pos+1 .. pos+Len(w)] = w
StartsAt(s, pos, w) ==
    /\ pos + Len(w) <= Len(s)
    /\ \A i \in 1..Len(w) : s[pos + i] = w[i]

\* the `in` operator of str: w occurs in s as a contiguous substring
Contains(s, w) == \E pos \in 0..Len(s) : StartsAt(s, pos, w)

-----------------------------------------------------------------------------
(* Regular expressions (module re): a pattern is a sequence of atoms.       *)
(*   [k |-> "set", cs, neg, min, max]  a character class, repeated min..max *)
(*                                     times (max = -1: unbounded)          *)
(*   [k |-> "alt", alts]               one of a set of literal strings      *)
(*   [k |-> "b"]                       \b, a word boundary                  *)

One(c)       == [k |-> "set", cs |-> {c}, neg |-> FALSE, min |-> 1, max |-> 1]
Star(S)      == [k |-> "set", cs |-> S, neg |-> FALSE, min |-> 0, max |-> -1]
Plus(S)      == [k |-> "set", cs |-> S, neg |-> FALSE, min |-> 1, max |-> -1]
NotPlus(S)   == [k |-> "set", cs |-> S, neg |-> TRUE, min |-> 1, max |-> -1]
NotStar(S)   == [k |-> "set", cs |-> S, neg |-> TRUE, min |-> 0, max |-> -1]
NotAtLeast(S, n) == [k |-> "set", cs |-> S, neg |-> TRUE, min |-> n, max |-> -1]
Alt(ws)      == [k |-> "alt", alts |-> ws]
Bnd          == [k |-> "b"]
WS           == Star(SpaceChars)

RECURSIVE Lit(_)
\* a literal string as a pattern
Lit(w) == IF w = <<>> THEN <<>> ELSE <<One(Head(w))>> \o Lit(Tail(w))

InClass(a, c) == IF a.neg THEN c \notin a.cs ELSE c \in a.cs

RECURSIVE RunLen(_, _, _)
\* how many characters from position pos on are in the class of atom a
RunLen(a, s, pos) ==
    IF pos < Len(s) /\ InClass(a, s[pos + 1]) THEN 1 + RunLen(a, s, pos + 1) ELSE 0

IsWord(s, i) == i >= 1 /\ i <= Len(s) /\ s[i] \in WordChars

RECURSIVE Ends(_, _, _)
\* the positions at which a match of pat that starts at pos can end
Ends(pat, s, pos) ==
    IF pat = <<>> THEN {pos}
    ELSE LET a == Head(pat)
             rest == Tail(pat)
         IN CASE a.k = "b" ->
                   IF IsWord(s, pos) # IsWord(s, pos + 1) THEN Ends(rest, s, pos) ELSE {}
              [] a.k = "alt" ->
                   UNION {Ends(rest, s, pos + Len(w)) : w \in {v \in a.alts : StartsAt(s, pos, v)}}
              [] a.k = "set" ->
                   LET run == RunLen(a, s, pos)
                       top == IF a.max = -1 \/ run < a.max THEN run ELSE a.max
                   IN UNION {Ends(rest, s, pos + n) : n \in a.min..top}

\* re.search(pat, s) is not None
ReSearch(pat, s) == \E pos \in 0..Len(s) : Ends(pat, s, pos) # {}

\* a pattern with its literals lowered, for re.IGNORECASE
LowerAtom(a) ==
    CASE a.k = "set" -> [a EXCEPT !.cs = {Lower(c) : c \in a.cs}]
      [] a.k = "alt" -> [a EXCEPT !.alts = {LowerText(w) : w \in a.alts}]
      [] a.k = "b"   -> a

-----------------------------------------------------------------------------
(* ast.parse, on the statement forms of the vocabulary.  The outcome is     *)
(* "ok" with the statement nodes in source order (each with its line, its   *)
(* parent statement and its code tokens), "SyntaxError" (IndentationError   *)
(* included), or "RecursionError" for valid syntax nested beyond the limit. *)

IsSpaceTok(t) == \A i \in DOMAIN Chars(t) : Chars(t)[i] \in SpaceChars

RECURSIVE Indent(_)
\* the number of leading white-space characters of a line
Indent(line) ==
    IF line # <<>> /\ IsSpaceTok(Head(line))
    THEN Len(Chars(Head(line))) + Indent(Tail(line))
    ELSE 0

RECURSIVE Lex(_, _, _)
\* the code tokens of a line from token i on: white space and the comment
\* dropped, a string literal as the one token "STR"; ok is FALSE when a
\* string literal is not terminated.  q: i is inside a string literal
Lex(line, i, q) ==
    IF i > Len(line) THEN [toks |-> <<>>, ok |-> ~q]
    ELSE LET t == line[i]
             out == Lex(line, i + 1, FALSE)
         IN IF q
            THEN IF t = "'"
                 THEN [out EXCEPT !.toks = <<"STR">> \o @]
                 ELSE Lex(line, i + 1, TRUE)
            ELSE IF t = "#" THEN [toks |-> <<>>, ok |-> TRUE]
            ELSE IF t = "'" THEN Lex(line, i + 1, TRUE)
            ELSE IF IsSpaceTok(t) THEN out
            ELSE [out EXCEPT !.toks = <<t>> \o @]

RECURSIVE Nesting(_, _)
\* the bracket depth after the first n tokens, -1 once a closing bracket
\* had no opening one
Nesting(toks, n) ==
    IF n = 0 THEN 0
    ELSE LET d == Nesting(toks, n - 1)
         IN IF d < 0 THEN -1
            ELSE IF toks[n] = "(" THEN d + 1
            ELSE IF toks[n] = ")" THEN d - 1
            ELSE d

Balanced(toks) == Nesting(toks, Len(toks)) = 0

\* the positions of token t outside every bracket
TopLevel(toks, t) == {i \in DOMAIN toks : toks[i] = t /\ Nesting(toks, i - 1) = 0}

Min(S) == CHOOSE x \in S : \A y \in S : x <= y
Max(S) == CHOOSE x \in S : \A y \in S : x >= y

CompoundKeywords == {"while", "for", "def", "async"}
Keywords == CompoundKeywords \cup {"import", "assert", "pass", "in", "from", "as"}

RECURSIVE Flatten(_)
Flatten(ss) == IF ss = <<>> THEN <<>> ELSE Head(ss) \o Flatten(Tail(ss))

RECURSIVE SplitAt(_, _)
\* toks cut at the positions cuts (a set), the cutting tokens dropped
SplitAt(toks, cuts) ==
    IF cuts = {} THEN <<toks>>
    ELSE LET c == Min(cuts)
         IN <<SubSeq(toks, 1, c - 1)>>
            \o SplitAt(SubSeq(toks, c + 1, Len(toks)), {d - c : d \in cuts \ {c}})

RECURSIVE ImportNames(_)
\* the aliases of an import statement: name [as asname] {, name [as asname]}
ImportNames(parts) ==
    IF parts = <<>> THEN <<>>
    ELSE LET a == Head(parts)
         IN <<[name |-> a[1], asname |-> IF Len(a) = 3 THEN a[3] ELSE "None"]>>
            \o ImportNames(Tail(parts))

AliasOk(a) ==
    /\ Len(a) \in {1, 3}
    /\ a[1] \notin Keywords \cup {"(", ")", "=", "STR"}
    /\ Len(a) = 3 => a[2] = "as" /\ a[3] \notin Keywords \cup {"(", ")", "=", "STR"}

\* one simple statement (no ';' in it): its node type, or "SyntaxError"
SimpleType(st) ==
    IF st = <<>> \/ ~Balanced(st) \/ Head(st) \in CompoundKeywords THEN "SyntaxError"
    ELSE CASE Head(st) = "pass" -> IF Len(st) = 1 THEN "Pass" ELSE "SyntaxError"
           [] Head(st) = "assert" -> IF Len(st) > 1 THEN "Assert" ELSE "SyntaxError"
           [] Head(st) = "import" ->
                LET parts == SplitAt(Tail(st), TopLevel(Tail(st), ","))
                IN IF \A i \in DOMAIN parts : AliasOk(parts[i]) THEN "Import" ELSE "SyntaxError"
           [] OTHER ->
                IF Head(st) \in Keywords \cup {"=", ")", ","} \/ st[Len(st)] \in {"=", ","} \cup Keywords
                THEN "SyntaxError"
                ELSE IF TopLevel(st, "=") # {} THEN "Assign" ELSE "Expr"

SimpleNode(st, line, parent) ==
    [type |-> SimpleType(st), lineno |-> line, parent |-> parent, toks |-> st,
     names |-> IF SimpleType(st) = "Import"
               THEN ImportNames(SplitAt(Tail(st), TopLevel(Tail(st), ",")))
               ELSE <<>>]

\* simple_stmts: statements separated by ';', a trailing ';' allowed
SimpleStmts(toks, line, parent) ==
    LET cut == SplitAt(toks, TopLevel(toks, ";"))
        sts == IF Len(cut) > 1 /\ cut[Len(cut)] = <<>> THEN SubSeq(cut, 1, Len(cut) - 1) ELSE cut
    IN [i \in DOMAIN sts |-> SimpleNode(sts[i], line, parent)]

\* the header of a compound statement (the tokens before its ':')
HeaderType(h) ==
    CASE Head(h) = "while" -> IF Len(h) > 1 /\ Balanced(h) THEN "While" ELSE "SyntaxError"
      [] Head(h) = "for" ->
           IF /\ Balanced(h)
              /\ \E i \in TopLevel(h, "in") : i > 2 /\ i < Len(h)
           THEN "For" ELSE "SyntaxError"
      [] Head(h) = "def" ->
           IF Len(h) >= 4 /\ h[2] \notin Keywords /\ h[3] = "(" /\ h[Len(h)] = ")" /\ Balanced(h)
           THEN "FunctionDef" ELSE "SyntaxError"
      [] Head(h) = "async" ->
           IF Len(h) >= 5 /\ h[2] = "def" /\ h[3] \notin Keywords /\ h[4] = "("
              /\ h[Len(h)] = ")" /\ Balanced(h)
           THEN "AsyncFunctionDef" ELSE "SyntaxError"

\* the statements of one logical line, the first one's parent being parent
\* and k nodes being there already: a compound statement with its inline
\* body, or simple statements
LineNodes(toks, line, parent, k) ==
    IF Head(toks) \in CompoundKeywords
    THEN LET colons == TopLevel(toks, ":")
             c == IF colons = {} THEN 0 ELSE Min(colons)
             h == SubSeq(toks, 1, c - 1)
             body == SubSeq(toks, c + 1, Len(toks))
         IN <<[type |-> IF c <= 1 THEN "SyntaxError" ELSE HeaderType(h),
               lineno |-> line, parent |-> parent, toks |-> h, names |-> <<>>]>>
            \o (IF c = 0 \/ body = <<>> THEN <<>> ELSE SimpleStmts(body, line, k + 1))
    ELSE SimpleStmts(toks, line, parent)

\* a compound statement whose block starts on the next line
OpensBlock(toks) == Head(toks) \in CompoundKeywords /\ toks[Len(toks)] = ":"

RECURSIVE PopTo(_, _)
\* the indentation stack with the levels deeper than n closed
PopTo(stack, n) ==
    IF Len(stack) > 1 /\ stack[Len(stack)].indent > n
    THEN PopTo(SubSeq(stack, 1, Len(stack) - 1), n)
    ELSE stack

RECURSIVE ParseLines(_, _, _)
\* the lines from line i on, after state p = [ok, nodes, stack, open]:
\* stack holds the open blocks (indentation, owning node), open says that
\* the previous statement awaits its indented block
ParseLines(src, i, p) ==
    IF ~p.ok THEN p
    ELSE IF i > Len(src) THEN [p EXCEPT !.ok = ~p.open]
    ELSE LET lx == Lex(src[i], 1, FALSE)
             n == Indent(src[i])
             top == p.stack[Len(p.stack)]
         IN IF ~lx.ok THEN [p EXCEPT !.ok = FALSE]
            ELSE IF lx.toks = <<>> THEN ParseLines(src, i + 1, p)
            ELSE LET stack == IF p.open
                              THEN Append(p.stack, [indent |-> n, owner |-> Len(p.nodes)])
                              ELSE PopTo(p.stack, n)
                     fits == IF p.open THEN n > top.indent
                             ELSE stack[Len(stack)].indent = n
                     new == LineNodes(lx.toks, i, stack[Len(stack)].owner, Len(p.nodes))
                 IN IF ~fits \/ \E j \in DOMAIN new : new[j].type = "SyntaxError"
                    THEN [p EXCEPT !.ok = FALSE]
                    ELSE ParseLines(src, i + 1,
                            [ok |-> TRUE, nodes |-> p.nodes \o new, stack |-> stack,
                             open |-> OpensBlock(lx.toks)])

\* some expression of the source is nested beyond the recursion limit
TooDeep(src) ==
    \E i \in DOMAIN src : "1+...+1" \in Range(Lex(src[i], 1, FALSE).toks)

\* the lines the tokenizer reads: a carriage return ends a line as a line
\* feed does, and a carriage return before a line feed is part of that line
\* end
TokenizerLines(src) ==
    LET Cut(parts) ==
            IF Len(parts) > 1 /\ parts[Len(parts)] = <<>>
            THEN SubSeq(parts, 1, Len(parts) - 1)
            ELSE parts
    IN Flatten([i \in DOMAIN src |->
                  Cut(SplitAt(src[i], {j \in DOMAIN src[i] : src[i][j] = "\r"}))])

\* ast.parse(code)
Parse(src) ==
    LET Parsed(p) ==
            IF ~p.ok THEN [outcome |-> "SyntaxError", nodes |-> <<>>]
            ELSE IF TooDeep(src) THEN [outcome |-> "RecursionError", nodes |-> <<>>]
            ELSE [outcome |-> "ok", nodes |-> p.nodes]
    IN Parsed(ParseLines(TokenizerLines(src), 1,
                         [ok |-> TRUE, nodes |-> <<>>,
                          stack |-> <<[indent |-> 0, owner |-> 0]>>, open |-> FALSE]))

-----------------------------------------------------------------------------
(* class CodeVisitor(ast.NodeVisitor) *)

CodeVisitorInit ==
    [function_count |-> 0, import_count |-> 0, while_loop_count |-> 0,
     for_loop_count |-> 0, while_loops |-> <<>>, nested_depth |-> 0,
     current_depth |-> 0]

\* the statements directly inside node k (k = 0: the module), in source order
Children(nodes, k) == {j \in DOMAIN nodes : nodes[j].parent = k}

\* self.current_depth += 1; self.nested_depth = max(nested_depth, current_depth)
Enter(v) ==
    [v EXCEPT !.current_depth = @ + 1,
              !.nested_depth = IF v.current_depth + 1 > @ THEN v.current_depth + 1 ELSE @]

\* a leaving that does not lower the depth counter
Leave_keeping_depth(v) == v

\* self.current_depth -= 1
Leave(v) == [v EXCEPT !.current_depth = @ - 1]

RECURSIVE Visit(_, _, _)
RECURSIVE VisitAll(_, _, _)

\* NodeVisitor.generic_visit(node): visit every child
generic_visit(nodes, k, v) == VisitAll(nodes, Children(nodes, k), v)

visit_FunctionDef(nodes, k, v) ==
    Leave(generic_visit(nodes, k, Enter([v EXCEPT !.function_count = @ + 1])))

visit_AsyncFunctionDef(nodes, k, v) ==
    Leave(generic_visit(nodes, k, Enter([v EXCEPT !.function_count = @ + 1])))

\* a visit_Import that counts the statement, not its names
visit_Import_per_statement(nodes, k, v) ==
    generic_visit(nodes, k, [v EXCEPT !.import_count = @ + 1])

visit_Import(nodes, k, v) ==
    generic_visit(nodes, k, [v EXCEPT !.import_count = @ + Len(nodes[k].names)])

visit_While(nodes, k, v) ==
    Leave(generic_visit(nodes, k,
            Enter([v EXCEPT !.while_loop_count = @ + 1,
                            !.while_loops = Append(@, nodes[k].lineno)])))

visit_For(nodes, k, v) ==
    Leave(generic_visit(nodes, k, Enter([v EXCEPT !.for_loop_count = @ + 1])))

\* NodeVisitor.visit(node): dispatch on the node's class
Visit(nodes, k, v) ==
    CASE nodes[k].type = "FunctionDef"      -> visit_FunctionDef(nodes, k, v)
      [] nodes[k].type = "AsyncFunctionDef" -> visit_AsyncFunctionDef(nodes, k, v)
      [] nodes[k].type = "Import"           -> visit_Import(nodes, k, v)
      [] nodes[k].type = "While"            -> visit_While(nodes, k, v)
      [] nodes[k].type = "For"              -> visit_For(nodes, k, v)
      [] OTHER                              -> generic_visit(nodes, k, v)

VisitAll(nodes, ks, v) ==
    IF ks = {} THEN v
    ELSE VisitAll(nodes, ks \ {Min(ks)}, Visit(nodes, Min(ks), v))

\* visitor = CodeVisitor(); visitor.visit(tree)
RunVisitor(nodes) == generic_visit(nodes, 0, CodeVisitorInit)

-----------------------------------------------------------------------------
(* ast.walk(tree): breadth first, so by depth and, at one depth, in source   *)
(* order                                                                    *)

RECURSIVE NodeDepth(_, _)
NodeDepth(nodes, k) == IF k = 0 THEN 0 ELSE 1 + NodeDepth(nodes, nodes[k].parent)

RECURSIVE WalkFrom(_, _)
\* the indices of the nodes at depth d and deeper, in walk order
WalkFrom(nodes, d) ==
    LET level == {k \in DOMAIN nodes : NodeDepth(nodes, k) = d}
        ordered(S) == [i \in 1..Cardinality(S) |->
                         CHOOSE k \in S : Cardinality({j \in S : j < k}) = i - 1]
    IN IF level = {} THEN <<>> ELSE ordered(level) \o WalkFrom(nodes, d + 1)

Walk(nodes) == WalkFrom(nodes, 1)

-----------------------------------------------------------------------------
(* class CodeAnalyzer *)

\* range\s*\(\s*len\s*\(
RangeLenRe ==
    Lit(Chars("range")) \o <<WS>> \o Lit(Chars("(")) \o <<WS>>
      \o Lit(Chars("len")) \o <<WS>> \o Lit(Chars("("))

\* list\s*\(\s*range\s*\(
ListRangeRe ==
    Lit(Chars("list")) \o <<WS>> \o Lit(Chars("(")) \o <<WS>>
      \o Lit(Chars("range")) \o <<WS>> \o Lit(Chars("("))

Issue(t, l, d) == [type |-> t, line |-> l, description |-> d]

RECURSIVE PatternsFrom(_, _)
\* the loop of _find_inefficient_patterns from line i on
PatternsFrom(src, i) ==
    IF i > Len(src) THEN <<>>
    ELSE (IF ReSearch(RangeLenRe, Text(src[i]))
          THEN <<Issue("inefficient_range_len", i,
                       "Using range(len(...)) instead of direct iteration")>>
          ELSE <<>>)
         \o (IF ReSearch(ListRangeRe, Text(src[i]))
             THEN <<Issue("unnecessary_list_conversion", i,
                          "Converting range to list unnecessarily")>>
             ELSE <<>>)
         \o PatternsFrom(src, i + 1)

find_inefficient_patterns(src) == PatternsFrom(src, 1)

RECURSIVE JoinLines(_, _)
\* ' '.join(lines[i:]) as characters
JoinLines(src, i) ==
    IF i > Len(src) THEN <<>>
    ELSE IF i = Len(src) THEN Text(src[i])
    ELSE Text(src[i]) \o <<" ">> \o JoinLines(src, i + 1)

\* the imports list of _find_unused_imports: one entry per alias of every
\* Import node, in walk order
CollectImports(nodes) ==
    LET w == Walk(nodes)
    IN Flatten([i \in DOMAIN w |->
         IF nodes[w[i]].type = "Import"
         THEN [j \in DOMAIN nodes[w[i]].names |->
                 [name |-> nodes[w[i]].names[j].name,
                  alias |-> nodes[w[i]].names[j].asname,
                  line |-> nodes[w[i]].lineno]]
         ELSE <<>>])

ImportName(imp) == IF imp.alias # "None" THEN imp.alias ELSE imp.name

\* a _find_unused_imports that looks for the name in the whole text, the
\* first line included
find_unused_imports_in_whole_text(src, nodes) ==
    LET imports == CollectImports(nodes)
        code_body == JoinLines(src, 1)
    IN Flatten([i \in DOMAIN imports |->
         IF ~Contains(code_body, Chars(ImportName(imports[i])))
         THEN <<Issue("unused_import", imports[i].line, ImportName(imports[i]))>>
         ELSE <<>>])

find_unused_imports(src, nodes) ==
    LET imports == CollectImports(nodes)
        code_body == JoinLines(src, 2)
    IN Flatten([i \in DOMAIN imports |->
         IF ~Contains(code_body, Chars(ImportName(imports[i])))
         THEN <<Issue("unused_import", imports[i].line, ImportName(imports[i]))>>
         ELSE <<>>])

RECURSIVE InsertByLine(_, _)
\* x put into the sorted list s after every element whose line is <= x.line
InsertByLine(s, x) ==
    IF s = <<>> THEN <<x>>
    ELSE IF s[Len(s)].line <= x.line THEN Append(s, x)
    ELSE Append(InsertByLine(SubSeq(s, 1, Len(s) - 1), x), s[Len(s)])

RECURSIVE SortedByLine(_)
\* sorted(issues, key=lambda x: x['line']): a stable sort
SortedByLine(s) ==
    IF s = <<>> THEN <<>>
    ELSE InsertByLine(SortedByLine(SubSeq(s, 1, Len(s) - 1)), s[Len(s)])

\* a merge that keeps one issue a line
compile_issues_one_per_line(visitor, inefficient_patterns, unused_imports) ==
    LET whiles == [i \in DOMAIN visitor.while_loops |->
                     Issue("while_loop", visitor.while_loops[i], "While loop detected")]
        all == SortedByLine(whiles \o inefficient_patterns \o unused_imports)
        keep == {i \in DOMAIN all : \A j \in 1..(i - 1) : all[j].line # all[i].line}
    IN [n \in 1..Cardinality(keep) |->
          all[CHOOSE i \in keep : Cardinality({j \in keep : j < i}) = n - 1]]

\* a merge that does not sort
compile_issues_unsorted(visitor, inefficient_patterns, unused_imports) ==
    LET whiles == [i \in DOMAIN visitor.while_loops |->
                     Issue("while_loop", visitor.while_loops[i], "While loop detected")]
    IN whiles \o inefficient_patterns \o unused_imports

compile_issues(visitor, inefficient_patterns, unused_imports) ==
    LET whiles == [i \in DOMAIN visitor.while_loops |->
                     Issue("while_loop", visitor.while_loops[i], "While loop detected")]
    IN SortedByLine(whiles \o inefficient_patterns \o unused_imports)

\* a complexity that leaves the nesting depth out
calculate_complexity_without_depth(visitor) ==
    visitor.while_loop_count * 3 + visitor.for_loop_count * 1
      + visitor.function_count * 2

calculate_complexity(visitor) ==
    visitor.while_loop_count * 3 + visitor.for_loop_count * 1
      + visitor.function_count * 2 + visitor.nested_depth * 2

\* line.strip() and not line.strip().startswith('#')
CountsAsCode(line) ==
    LET t == Text(line)
        ns == {i \in DOMAIN t : t[i] \notin SpaceChars}
    IN ns # {} /\ t[Min(ns)] # "#"

count_lines(src) == Cardinality({i \in DOMAIN src : CountsAsCode(src[i])})

\* an analyze that keeps the issues of the earlier calls in self.issues and
\* reports them again
analyze_accumulating(self, src) ==
    LET Return(visitor, inefficient_patterns, unused_imports, issues) ==
            [raised |-> "None",
             self |-> [self EXCEPT !.issues = issues],
             results |->
               [lines_of_code |-> count_lines(src),
                function_count |-> visitor.function_count,
                import_count |-> visitor.import_count,
                while_loop_count |-> visitor.while_loop_count,
                for_loop_count |-> visitor.for_loop_count,
                inefficient_patterns_count |-> Len(inefficient_patterns),
                unused_imports_count |-> Len(unused_imports),
                issues |-> issues,
                complexity_score |-> calculate_complexity(visitor)],
             steps |-> <<"reset", "parse", "count_lines", "visit", "patterns",
                         "unused_imports", "compile_issues", "complexity">>]
        Compile(visitor, inefficient_patterns, unused_imports) ==
            Return(visitor, inefficient_patterns, unused_imports,
                   self.issues \o compile_issues(visitor, inefficient_patterns, unused_imports))
        Parsed(tree) ==
            IF tree.outcome # "ok"
            THEN [raised |-> tree.outcome, results |-> <<>>, steps |-> <<"reset", "parse">>,
                  self |-> self]
            ELSE Compile(RunVisitor(tree.nodes), find_inefficient_patterns(src),
                         find_unused_imports(src, tree.nodes))
    IN Parsed(Parse(src))

\* CodeAnalyzer.analyze(code) on the analyzer self: what it raises ("None":
\* it returns), the dictionary it returns, the steps it ran, and the
\* analyzer's fields after the call
analyze(self, src) ==
    LET Return(visitor, inefficient_patterns, unused_imports, issues) ==
            [raised |-> "None",
             self |-> [self EXCEPT !.issues = <<>>],
             results |->
               [lines_of_code |-> count_lines(src),
                function_count |-> visitor.function_count,
                import_count |-> visitor.import_count,
                while_loop_count |-> visitor.while_loop_count,
                for_loop_count |-> visitor.for_loop_count,
                inefficient_patterns_count |-> Len(inefficient_patterns),
                unused_imports_count |-> Len(unused_imports),
                issues |-> issues,
                complexity_score |-> calculate_complexity(visitor)],
             steps |-> <<"reset", "parse", "count_lines", "visit", "patterns",
                         "unused_imports", "compile_issues", "complexity">>]
        Compile(visitor, inefficient_patterns, unused_imports) ==
            Return(visitor, inefficient_patterns, unused_imports,
                   compile_issues(visitor, inefficient_patterns, unused_imports))
        Parsed(tree) ==
            IF tree.outcome # "ok"
            THEN [raised |-> tree.outcome, results |-> <<>>, steps |-> <<"reset", "parse">>,
                  self |-> [self EXCEPT !.issues = <<>>]]
            ELSE Compile(RunVisitor(tree.nodes), find_inefficient_patterns(src),
                         find_unused_imports(src, tree.nodes))
    IN Parsed(Parse(src))

\* dict.get(key, default)
Get(d, key, default) == IF key \in DOMAIN d THEN d[key] ELSE default

\* a green score without the floor at 0
calculate_green_score_unfloored(analysis_results) ==
    LET deductions ==
            Get(analysis_results, "while_loop_count", 0) * 15
              + Get(analysis_results, "unused_imports_count", 0) * 10
              + Get(analysis_results, "inefficient_patterns_count", 0) * 12
              + (IF Get(analysis_results, "complexity_score", 0) > 20
                 THEN (Get(analysis_results, "complexity_score", 0) - 20) * 2 ELSE 0)
    IN IF 100 - deductions < 100 THEN 100 - deductions ELSE 100

\* a green score that charges complexity from 20 on, one point a unit
calculate_green_score_flat_penalty(analysis_results) ==
    LET deductions ==
            Get(analysis_results, "while_loop_count", 0) * 15
              + Get(analysis_results, "unused_imports_count", 0) * 10
              + Get(analysis_results, "inefficient_patterns_count", 0) * 12
              + (IF Get(analysis_results, "complexity_score", 0) > 20
                 THEN Get(analysis_results, "complexity_score", 0) - 20 ELSE 0)
    IN IF 100 - deductions > 0 THEN 100 - deductions ELSE 0

\* a green score whose complexity penalty has the difference reversed
calculate_green_score_reversed_penalty(analysis_results) ==
    LET deductions ==
            Get(analysis_results, "while_loop_count", 0) * 15
              + Get(analysis_results, "unused_imports_count", 0) * 10
              + Get(analysis_results, "inefficient_patterns_count", 0) * 12
              + (IF Get(analysis_results, "complexity_score", 0) > 20
                 THEN (20 - Get(analysis_results, "complexity_score", 0)) * 2 ELSE 0)
        Floored(green_score) == IF green_score > 0 THEN green_score ELSE 0
        Capped(green_score) == IF green_score < 100 THEN green_score ELSE 100
    IN Capped(Floored(100 - deductions))

\* CodeAnalyzer.calculate_green_score(analysis_results)
calculate_green_score(analysis_results) ==
    LET base_score == 100
        issue_deductions ==
            Get(analysis_results, "while_loop_count", 0) * 15
              + Get(analysis_results, "unused_imports_count", 0) * 10
              + Get(analysis_results, "inefficient_patterns_count", 0) * 12
        complexity == Get(analysis_results, "complexity_score", 0)
        deductions == IF complexity > 20
                      THEN issue_deductions + (complexity - 20) * 2
                      ELSE issue_deductions
        green_score == IF base_score - deductions > 0 THEN base_score - deductions ELSE 0
    IN IF green_score < 100 THEN green_score ELSE 100

-----------------------------------------------------------------------------
(* class SecurityChecker *)

Quotes == {"\"", "'"}
OneOf(S) == [k |-> "set", cs |-> S, neg |-> FALSE, min |-> 1, max |-> 1]
Opt(c) == [k |-> "set", cs |-> {c}, neg |-> FALSE, min |-> 0, max |-> 1]
AnyStar == NotStar({})

\* self.security_patterns, in the order of the dictionary
security_patterns ==
    << [subtype |-> "eval_usage", severity |-> "HIGH",
        \* \beval\s*\(
        pattern |-> <<Bnd>> \o Lit(<<"e","v","a","l">>) \o <<WS>> \o Lit(<<"(">>)],
       [subtype |-> "exec_usage", severity |-> "HIGH",
        \* \bexec\s*\(
        pattern |-> <<Bnd>> \o Lit(<<"e","x","e","c">>) \o <<WS>> \o Lit(<<"(">>)],
       [subtype |-> "hardcoded_password", severity |-> "HIGH",
        \* (password|passwd|pwd)\s*=\s*["\'][^"\']+["\']
        pattern |-> <<Alt({<<"p","a","s","s","w","o","r","d">>, <<"p","a","s","s","w","d">>, <<"p","w","d">>}), WS>> \o Lit(<<"=">>)
                      \o <<WS, OneOf(Quotes), NotPlus(Quotes), OneOf(Quotes)>>],
       [subtype |-> "hardcoded_secret", severity |-> "HIGH",
        \* (secret|token|key|api_key)\s*=\s*["\'][^"\']{8,}["\']
        pattern |-> <<Alt({<<"s","e","c","r","e","t">>, <<"t","o","k","e","n">>, <<"k","e","y">>, <<"a","p","i","_","k","e","y">>}), WS>> \o Lit(<<"=">>)
                      \o <<WS, OneOf(Quotes), NotAtLeast(Quotes, 8), OneOf(Quotes)>>],
       [subtype |-> "sql_injection_risk", severity |-> "MEDIUM",
        \* \.execute\s*\(\s*["\'].*%.*["\']
        pattern |-> Lit(<<".","e","x","e","c","u","t","e">>) \o <<WS>> \o Lit(<<"(">>)
                      \o <<WS, OneOf(Quotes), AnyStar>> \o Lit(<<"%">>)
                      \o <<AnyStar, OneOf(Quotes)>>],
       [subtype |-> "shell_injection", severity |-> "HIGH",
        \* (os\.system|subprocess\.call|subprocess\.run)\s*\([^)]*\+
        pattern |-> <<Alt({<<"o","s",".","s","y","s","t","e","m">>, <<"s","u","b","p","r","o","c","e","s","s",".","c","a","l","l">>, <<"s","u","b","p","r","o","c","e","s","s",".","r","u","n">>}), WS>>
                      \o Lit(<<"(">>) \o <<NotStar({")"})>> \o Lit(<<"+">>)],
       [subtype |-> "pickle_usage", severity |-> "MEDIUM",
        \* \bpickle\.loads?\s*\(
        pattern |-> <<Bnd>> \o Lit(<<"p","i","c","k","l","e",".","l","o","a","d">>) \o <<Opt("s"), WS>> \o Lit(<<"(">>)],
       [subtype |-> "temp_file_unsafe", severity |-> "LOW",
        \* open\s*\(\s*["\']\/tmp\/
        pattern |-> Lit(<<"o","p","e","n">>) \o <<WS>> \o Lit(<<"(">>) \o <<WS, OneOf(Quotes)>>
                      \o Lit(<<"/","t","m","p","/">>)],
       [subtype |-> "weak_random", severity |-> "LOW",
        \* random\.(random|randint|choice)
        pattern |-> Lit(<<"r","a","n","d","o","m",".">>) \o <<Alt({<<"r","a","n","d","o","m">>, <<"r","a","n","d","i","n","t">>, <<"c","h","o","i","c","e">>})>>],
       [subtype |-> "debug_mode", severity |-> "MEDIUM",
        \* debug\s*=\s*True
        pattern |-> Lit(<<"d","e","b","u","g">>) \o <<WS>> \o Lit(<<"=">>) \o <<WS>> \o Lit(<<"T","r","u","e">>)] >>

SecIssue(st, l, sev) ==
    [type |-> "security_vulnerability", subtype |-> st, line |-> l, severity |-> sev]

\* the patterns as re compiles them under re.IGNORECASE
compiled_patterns ==
    [p \in DOMAIN security_patterns |->
       [i \in DOMAIN security_patterns[p].pattern |->
          LowerAtom(security_patterns[p].pattern[i])]]

RECURSIVE LinePatterns(_, _, _)
\* the inner loop of analyze_security: the patterns from the p-th on, on line
\* i, whose characters (lowered, as re.IGNORECASE compares them) are text
LinePatterns(text, i, p) ==
    IF p > Len(security_patterns) THEN <<>>
    ELSE (IF ReSearch(compiled_patterns[p], text)
          THEN <<SecIssue(security_patterns[p].subtype, i, security_patterns[p].severity)>>
          ELSE <<>>)
         \o LinePatterns(text, i, p + 1)

RECURSIVE PatternIssues(_, _)
\* the outer loop of analyze_security: the lines from line i on
PatternIssues(src, i) ==
    IF i > Len(src) THEN <<>>
    ELSE LinePatterns(LowerText(Text(src[i])), i, 1) \o PatternIssues(src, i + 1)

\* call sites that keep only the first call of a statement
CallSites_first_only(nodes, k) ==
    IF nodes[k].type \in {"FunctionDef", "AsyncFunctionDef", "Import", "Pass"} THEN {}
    ELSE {j \in DOMAIN nodes[k].toks :
            /\ j < Len(nodes[k].toks)
            /\ nodes[k].toks[j + 1] = "("
            /\ nodes[k].toks[j] \notin Keywords \cup {"(", ")", "=", ",", ".", ";", ":", "STR"}
            /\ \A i \in 1..(j - 1) : nodes[k].toks[i + 1] # "("}

\* the ast.Call nodes inside statement k, as the positions of their function
\* names: a name directly before an opening bracket
CallSites(nodes, k) ==
    IF nodes[k].type \in {"FunctionDef", "AsyncFunctionDef", "Import", "Pass"} THEN {}
    ELSE {j \in DOMAIN nodes[k].toks :
            /\ j < Len(nodes[k].toks)
            /\ nodes[k].toks[j + 1] = "("
            /\ nodes[k].toks[j] \notin Keywords \cup {"(", ")", "=", ",", ".", ";", ":", "STR"}}

\* the keyword arguments of the call at position j contain shell=True
ShellTrue(toks, j) ==
    \E a \in DOMAIN toks :
        /\ a > j + 1 /\ a + 2 <= Len(toks)
        /\ toks[a] = "shell" /\ toks[a + 1] = "=" /\ toks[a + 2] = "True"
        /\ Nesting(toks, a - 1) = Nesting(toks, j) + 1
        /\ \A b \in (j + 1)..a : Nesting(toks, b) > Nesting(toks, j)

\* what _analyze_ast_security appends for the call at position j of statement
\* k (the empty sequence: nothing)
CallIssue(nodes, k, j) ==
    LET toks == nodes[k].toks
    IN IF j > 1 /\ toks[j - 1] = "."
       THEN \* node.func is an ast.Attribute
            IF j > 2 /\ toks[j - 2] = "subprocess" /\ (j = 3 \/ toks[j - 3] # ".")
               /\ ShellTrue(toks, j)
            THEN <<SecIssue("subprocess_shell_true", nodes[k].lineno, "HIGH")>>
            ELSE <<>>
       ELSE \* node.func is an ast.Name
            IF toks[j] \in {"eval", "exec", "compile"}
            THEN <<SecIssue("dangerous_function_" \o toks[j], nodes[k].lineno, "HIGH")>>
            ELSE <<>>

\* the nodes ast.walk yields that the checks look at: statements (j = 0) and
\* calls (j: the position in statement k), each with its depth in the tree
WalkItems(nodes) ==
    {[d |-> NodeDepth(nodes, k), k |-> k, j |-> 0] : k \in DOMAIN nodes}
      \cup UNION {{[d |-> NodeDepth(nodes, k) + 1 + Nesting(nodes[k].toks, j), k |-> k, j |-> j]
                     : j \in CallSites(nodes, k)} : k \in DOMAIN nodes}

\* breadth first: by depth, then in source order
WalksBefore(a, b) ==
    \/ a.d < b.d
    \/ a.d = b.d /\ (a.k < b.k \/ (a.k = b.k /\ a.j < b.j))

WalkOrder(nodes) ==
    LET S == WalkItems(nodes)
    IN [i \in 1..Cardinality(S) |->
          CHOOSE a \in S : Cardinality({b \in S : WalksBefore(b, a)}) = i - 1]

analyze_ast_security(nodes) ==
    LET w == WalkOrder(nodes)
    IN Flatten([i \in DOMAIN w |->
         IF w[i].j # 0 THEN CallIssue(nodes, w[i].k, w[i].j)
         ELSE IF nodes[w[i].k].type = "Assert"
         THEN <<SecIssue("assert_statement", nodes[w[i].k].lineno, "LOW")>>
         ELSE <<>>])

RECURSIVE ScoreFrom(_, _)
\* the loop of _calculate_security_score over the issues, base_score so far
ScoreFrom(issues, base_score) ==
    IF issues = <<>> THEN base_score
    ELSE LET severity == Get(Head(issues), "severity", "LOW")
         IN ScoreFrom(Tail(issues),
                      CASE severity = "HIGH"   -> base_score - 25
                        [] severity = "MEDIUM" -> base_score - 10
                        [] severity = "LOW"    -> base_score - 5
                        [] OTHER               -> base_score)

\* a security score without the floor at 0
calculate_security_score_unfloored(issues) == ScoreFrom(issues, 100)

calculate_security_score(issues) ==
    LET base_score == ScoreFrom(issues, 100)
    IN IF base_score > 0 THEN base_score ELSE 0

\* risk levels with exclusive lower bounds
get_risk_level_exclusive(security_score) ==
    IF security_score > 90 THEN "LOW"
    ELSE IF security_score > 70 THEN "MEDIUM"
    ELSE IF security_score > 50 THEN "HIGH"
    ELSE "CRITICAL"

get_risk_level(security_score) ==
    IF security_score >= 90 THEN "LOW"
    ELSE IF security_score >= 70 THEN "MEDIUM"
    ELSE IF security_score >= 50 THEN "HIGH"
    ELSE "CRITICAL"

CountSeverity(issues, sev) ==
    Cardinality({i \in DOMAIN issues : Get(issues[i], "severity", "None") = sev})

\* SecurityChecker.analyze_security(code): what it raises ("None": it
\* returns) and the dictionary it returns
analyze_security(src) ==
    LET tree == Parse(src)
        pattern_issues == PatternIssues(src, 1)
        security_issues ==
            IF tree.outcome = "ok"
            THEN pattern_issues \o analyze_ast_security(tree.nodes)
            ELSE pattern_issues
        security_score == calculate_security_score(security_issues)
    IN IF tree.outcome \notin {"ok", "SyntaxError"}
       THEN [raised |-> tree.outcome, result |-> <<>>]
       ELSE [raised |-> "None",
             result |->
               [security_issues |-> security_issues,
                security_score |-> security_score,
                risk_level |-> get_risk_level(security_score),
                total_vulnerabilities |-> Len(security_issues),
                high_risk_count |-> CountSeverity(security_issues, "HIGH"),
                medium_risk_count |-> CountSeverity(security_issues, "MEDIUM"),
                low_risk_count |-> CountSeverity(security_issues, "LOW")]]


-----------------------------------------------------------------------------
(* Python's numbers: int as Int, float as binary64 computed exactly *)

\* a natural number of any size is the sequence of its digits in base Limb,
\* the lowest first and the highest not 0
LimbBits == 15
Limb == 32768

RECURSIVE BTrim(_)
\* a without its high zero limbs
BTrim(a) == IF a # <<>> /\ a[Len(a)] = 0 THEN BTrim(SubSeq(a, 1, Len(a) - 1)) ELSE a

RECURSIVE BFromInt(_)
\* the natural number n as limbs, low limb first
BFromInt(n) == IF n = 0 THEN <<>> ELSE <<n % Limb>> \o BFromInt(n \div Limb)

RECURSIVE BAddC(_, _, _)
BAddC(a, b, c) ==
    IF a = <<>> /\ b = <<>> THEN (IF c = 0 THEN <<>> ELSE <<c>>)
    ELSE LET x == IF a = <<>> THEN 0 ELSE Head(a)
             y == IF b = <<>> THEN 0 ELSE Head(b)
             s == x + y + c
         IN <<s % Limb>> \o BAddC(IF a = <<>> THEN <<>> ELSE Tail(a),
                                   IF b = <<>> THEN <<>> ELSE Tail(b), s \div Limb)

BAdd(a, b) == BAddC(a, b, 0)

RECURSIVE BMulC(_, _, _)
BMulC(a, k, c) ==
    IF a = <<>> THEN BFromInt(c)
    ELSE LET p == Head(a) * k + c
         IN <<p % Limb>> \o BMulC(Tail(a), k, p \div Limb)

\* a times the small number k (k <= Limb)
BMulSmall(a, k) == BTrim(BMulC(a, k, 0))

RECURSIVE BMul(_, _)
BMul(a, b) ==
    IF b = <<>> \/ a = <<>> THEN <<>>
    ELSE BAdd(BMulSmall(a, Head(b)),
              LET r == BMul(a, Tail(b)) IN IF r = <<>> THEN <<>> ELSE <<0>> \o r)

RECURSIVE BDivR(_, _, _)
\* the quotient limbs (high limb first, reversed later) and remainder of the
\* top n limbs of a by k
BDivR(a, n, k) ==
    IF n = 0 THEN [q |-> <<>>, r |-> 0]
    ELSE LET hi == BDivR(SubSeq(a, 2, Len(a)), n - 1, k)
             cur == hi.r * Limb + a[1]
         IN [q |-> <<cur \div k>> \o hi.q, r |-> cur % k]

\* quotient and remainder of a by the small number k (0 < k <= Limb)
BDivSmall(a, k) ==
    LET Of(d) == [q |-> BTrim(d.q), r |-> d.r] IN Of(BDivR(a, Len(a), k))

RECURSIVE IntBits(_)
IntBits(n) == IF n = 0 THEN 0 ELSE 1 + IntBits(n \div 2)

\* the number of bits of a
BitLen(a) == IF a = <<>> THEN 0 ELSE LimbBits * (Len(a) - 1) + IntBits(a[Len(a)])

RECURSIVE Pow2(_)
Pow2(n) == IF n = 0 THEN 1 ELSE 2 * Pow2(n - 1)

\* a times 2^n
BShl(a, n) ==
    IF a = <<>> THEN <<>>
    ELSE [i \in 1..(n \div LimbBits) |-> 0] \o BMulSmall(a, Pow2(n % LimbBits))

\* a divided by 2^n: the quotient, and whether a bit was shifted out
BShr(a, n) ==
    LET Of(d, dv) == [q |-> dv.q, sticky |-> (\E i \in 1..d : a[i] # 0) \/ dv.r # 0]
        From(d) == Of(d, BDivSmall(SubSeq(a, d + 1, Len(a)), Pow2(n % LimbBits)))
    IN From(IF n \div LimbBits < Len(a) THEN n \div LimbBits ELSE Len(a))

RECURSIVE BToInt(_)
\* the number a, when it fits an int
BToInt(a) == IF a = <<>> THEN 0 ELSE Head(a) + Limb * BToInt(Tail(a))

RECURSIVE Pow10(_)
Pow10(n) == IF n = 0 THEN 1 ELSE 10 * Pow10(n - 1)

BOdd(a) == a # <<>> /\ a[1] % 2 = 1

RECURSIVE BLess(_, _)
\* a < b
BLess(a, b) ==
    IF Len(a) # Len(b) THEN Len(a) < Len(b)
    ELSE IF a = <<>> THEN FALSE
    ELSE IF a[Len(a)] # b[Len(b)] THEN a[Len(a)] < b[Len(b)]
    ELSE BLess(SubSeq(a, 1, Len(a) - 1), SubSeq(b, 1, Len(b) - 1))

-----------------------------------------------------------------------------
\* A Python float (IEEE 754 binary64; the non-negative ones of the normal
\* range): m * 2^e with m of 53 bits, or m = <<>> and e = 0 for 0.0

MantissaBits == 53

FZero == [m |-> <<>>, e |-> 0]

\* m * 2^e (and a little more when sticky) rounded to the nearest float,
\* ties to the even mantissa
FRound(m, e, sticky) ==
    LET Fit(r, x) ==
            IF BitLen(r) > MantissaBits
            THEN [m |-> BShr(r, 1).q, e |-> x + 1]
            ELSE [m |-> r, e |-> x]
        Up(q, guard, more, x) ==
            Fit(IF guard /\ (more \/ BOdd(q)) THEN BAdd(q, <<1>>) ELSE q, x)
        Cut(s, x) == Up(BShr(s.q, 1).q, BOdd(s.q), s.sticky \/ sticky, x)
        To(L) ==
            IF m = <<>> THEN FZero
            ELSE IF L <= MantissaBits
            THEN [m |-> BShl(m, MantissaBits - L), e |-> e - (MantissaBits - L)]
            ELSE Cut(BShr(m, L - MantissaBits - 1), e + (L - MantissaBits))
    IN To(BitLen(m))

\* float(n)
FInt(n) == FRound(BFromInt(n), 0, FALSE)

\* x + y
FAdd(x, y) ==
    IF x.m = <<>> THEN y
    ELSE IF y.m = <<>> THEN x
    ELSE IF x.e >= y.e THEN FRound(BAdd(BShl(x.m, x.e - y.e), y.m), y.e, FALSE)
    ELSE FRound(BAdd(BShl(y.m, y.e - x.e), x.m), x.e, FALSE)

\* x * y
FMul(x, y) == FRound(BMul(x.m, y.m), x.e + y.e, FALSE)

\* the bits a dividend is extended by, more than the quotient can lose
GuardBits == 120

RECURSIVE BDivAll(_, _)
\* the quotient of a by the product of the small numbers ks, and whether it
\* left a remainder
BDivAll(a, ks) ==
    LET Of(d, rest) == [q |-> rest.q, sticky |-> rest.sticky \/ d.r # 0]
        By(d) == Of(d, BDivAll(d.q, Tail(ks)))
    IN IF ks = <<>> THEN [q |-> a, sticky |-> FALSE]
       ELSE By(BDivSmall(a, Head(ks)))

\* x / (the product of the small numbers ks)
FDivBy(x, ks) ==
    LET Of(d) == FRound(d.q, x.e - GuardBits, d.sticky)
    IN Of(BDivAll(BShl(x.m, GuardBits), ks))

\* x * 2^n
FScale(x, n) == IF x.m = <<>> THEN x ELSE [x EXCEPT !.e = @ + n]

\* x < y
FLess(x, y) ==
    IF y.m = <<>> THEN FALSE
    ELSE IF x.m = <<>> THEN TRUE
    ELSE IF x.e # y.e THEN x.e < y.e
    ELSE BLess(x.m, y.m)

FLeq(x, y) == ~FLess(y, x)

\* the decimal literal n / (the product of ks), as the parser rounds it
FDec(n, ks) == FDivBy(FInt(n), ks)

\* x * 10^d rounded to the nearest integer, ties to even: the digits of
\* format(x, '.<d>f')
FFixed(x, d) ==
    LET Up(s, q) == IF BOdd(s.q) /\ (s.sticky \/ BOdd(q)) THEN BAdd(q, <<1>>) ELSE q
        Cut(s) == Up(s, BShr(s.q, 1).q)
        Of(n) == IF x.e >= 0 THEN BToInt(BShl(n, x.e))
                 ELSE BToInt(Cut(BShr(n, -x.e - 1)))
    IN Of(BMul(x.m, BFromInt(Pow10(d))))


-----------------------------------------------------------------------------
(* class CarbonCalculator *)

\* CarbonCalculator.__init__: the cost tables
CarbonCalculatorInit ==
    [energy_costs |->
       [function_call        |-> FDec(5, <<10>>),
        while_loop_iteration |-> FInt(2),
        for_loop_iteration   |-> FDec(15, <<10>>),
        list_comprehension   |-> FInt(1),
        import_statement     |-> FDec(3, <<10>>),
        memory_allocation    |-> FDec(8, <<10>>),
        string_operation     |-> FDec(2, <<10>>),
        math_operation       |-> FDec(1, <<10>>)],
     carbon_factor |-> 500,
     uj_to_kwh |-> FDec(278, <<10000, 10000, 10000, 1000>>)]

RECURSIVE InefficiencyFrom(_, _)
\* the loop of calculate_energy_consumption over the issues,
\* inefficiency_energy so far
InefficiencyFrom(issues, inefficiency_energy) ==
    IF issues = <<>> THEN inefficiency_energy
    ELSE InefficiencyFrom(Tail(issues),
           IF Head(issues).type = "while_loop"
           THEN FAdd(inefficiency_energy, FInt(5))
           ELSE IF Head(issues).type = "inefficient_range_len"
           THEN FAdd(inefficiency_energy, FInt(2))
           ELSE IF Head(issues).type = "unused_import"
           THEN FAdd(inefficiency_energy, FDec(5, <<10>>))
           ELSE inefficiency_energy)

\* calculate_energy_consumption with the for loops left out of loop_energy
calculate_energy_consumption_loops_without_for(self, analysis_results) ==
    LET Return(base_energy, function_energy, loop_energy, import_energy,
               inefficiency_energy, total_energy) ==
            [raised |-> "None",
             self |-> self,
             analysis_results |-> analysis_results,
             value |->
               [total_energy_uj |-> total_energy,
                base_energy |-> base_energy,
                function_energy |-> function_energy,
                loop_energy |-> loop_energy,
                import_energy |-> import_energy,
                inefficiency_penalty |-> inefficiency_energy,
                energy_breakdown |->
                  [Base_Execution |-> base_energy,
                   Functions |-> function_energy,
                   Loops |-> loop_energy,
                   Imports |-> import_energy,
                   Inefficiencies |-> inefficiency_energy]]]
        Total(base_energy, function_energy, while_loop_energy, for_loop_energy,
              import_energy, inefficiency_energy) ==
            Return(base_energy, function_energy,
                   while_loop_energy, import_energy,
                   inefficiency_energy,
                   FAdd(FAdd(FAdd(FAdd(FAdd(base_energy, function_energy),
                                       while_loop_energy), for_loop_energy),
                             import_energy), inefficiency_energy))
    IN Total(FMul(FInt(Get(analysis_results, "lines_of_code", 0)), FDec(1, <<10>>)),
             FMul(FInt(Get(analysis_results, "function_count", 0)),
                  self.energy_costs.function_call),
             FMul(FMul(FInt(Get(analysis_results, "while_loop_count", 0)),
                       self.energy_costs.while_loop_iteration), FInt(10)),
             FMul(FMul(FInt(Get(analysis_results, "for_loop_count", 0)),
                       self.energy_costs.for_loop_iteration), FInt(10)),
             FMul(FInt(Get(analysis_results, "import_count", 0)),
                  self.energy_costs.import_statement),
             InefficiencyFrom(Get(analysis_results, "issues", <<>>), FZero))

\* CarbonCalculator.calculate_energy_consumption(analysis_results) on the
\* calculator self: the dictionary it returns, and the calculator and the
\* argument after the call
calculate_energy_consumption(self, analysis_results) ==
    LET Return(base_energy, function_energy, loop_energy, import_energy,
               inefficiency_energy, total_energy) ==
            [raised |-> "None",
             self |-> self,
             analysis_results |-> analysis_results,
             value |->
               [total_energy_uj |-> total_energy,
                base_energy |-> base_energy,
                function_energy |-> function_energy,
                loop_energy |-> loop_energy,
                import_energy |-> import_energy,
                inefficiency_penalty |-> inefficiency_energy,
                energy_breakdown |->
                  [Base_Execution |-> base_energy,
                   Functions |-> function_energy,
                   Loops |-> loop_energy,
                   Imports |-> import_energy,
                   Inefficiencies |-> inefficiency_energy]]]
        Total(base_energy, function_energy, while_loop_energy, for_loop_energy,
              import_energy, inefficiency_energy) ==
            Return(base_energy, function_energy,
                   FAdd(while_loop_energy, for_loop_energy), import_energy,
                   inefficiency_energy,
                   FAdd(FAdd(FAdd(FAdd(FAdd(base_energy, function_energy),
                                       while_loop_energy), for_loop_energy),
                             import_energy), inefficiency_energy))
    IN Total(FMul(FInt(Get(analysis_results, "lines_of_code", 0)), FDec(1, <<10>>)),
             FMul(FInt(Get(analysis_results, "function_count", 0)),
                  self.energy_costs.function_call),
             FMul(FMul(FInt(Get(analysis_results, "while_loop_count", 0)),
                       self.energy_costs.while_loop_iteration), FInt(10)),
             FMul(FMul(FInt(Get(analysis_results, "for_loop_count", 0)),
                       self.energy_costs.for_loop_iteration), FInt(10)),
             FMul(FInt(Get(analysis_results, "import_count", 0)),
                  self.energy_costs.import_statement),
             InefficiencyFrom(Get(analysis_results, "issues", <<>>), FZero))

\* f"{x:.<places>f} <unit>": the digits as the integer x * 10^places
Formatted(x, places, unit) == [digits |-> FFixed(x, places), places |-> places, unit |-> unit]

\* CarbonCalculator._calculate_equivalents(carbon_g)
calculate_equivalents(self, carbon_g) ==
    LET Entry(x, least, key, places, unit) ==
            IF FLess(least, x) THEN key :> Formatted(x, places, unit) ELSE <<>>
    IN [raised |-> "None", self |-> self,
        value |->
          Entry(FDivBy(carbon_g, <<5>>), FDec(1, <<1000>>),
                "smartphone_charges", 3, "smartphone charges")
          @@ Entry(FMul(FDivBy(carbon_g, <<150>>), FInt(1000)), FDec(1, <<10>>),
                   "car_driving", 1, "meters of car driving")
          @@ Entry(FScale(FDivBy(carbon_g, <<1>>), 1), FDec(1, <<100>>),
                   "led_bulb_hours", 2, "hours of LED bulb usage")]

\* a calculate_carbon_footprint that converts the energy in the dictionary it
\* was given
calculate_carbon_footprint_converting_in_place(self, energy_consumption) ==
    LET Return(total_energy_kwh, carbon_emissions_g) ==
            [raised |-> "None",
             self |-> self,
             energy_consumption |->
               [energy_consumption EXCEPT !.total_energy_uj = total_energy_kwh],
             value |->
               [carbon_emissions_g |-> carbon_emissions_g,
                carbon_display |->
                  IF FLess(carbon_emissions_g, FDec(1, <<1000>>))
                  THEN Formatted(FMul(carbon_emissions_g, FInt(1000)), 3, "mg")
                  ELSE IF FLess(carbon_emissions_g, FInt(1))
                  THEN Formatted(carbon_emissions_g, 3, "g")
                  ELSE Formatted(carbon_emissions_g, 2, "g"),
                energy_kwh |-> total_energy_kwh,
                equivalent_metrics |->
                  calculate_equivalents(self, carbon_emissions_g).value]]
        Emissions(total_energy_kwh) ==
            Return(total_energy_kwh, FMul(total_energy_kwh, FInt(self.carbon_factor)))
    IN Emissions(FMul(energy_consumption.total_energy_uj, self.uj_to_kwh))

\* CarbonCalculator.calculate_carbon_footprint(energy_consumption)
calculate_carbon_footprint(self, energy_consumption) ==
    LET Return(total_energy_kwh, carbon_emissions_g) ==
            [raised |-> "None",
             self |-> self,
             energy_consumption |-> energy_consumption,
             value |->
               [carbon_emissions_g |-> carbon_emissions_g,
                carbon_display |->
                  IF FLess(carbon_emissions_g, FDec(1, <<1000>>))
                  THEN Formatted(FMul(carbon_emissions_g, FInt(1000)), 3, "mg")
                  ELSE IF FLess(carbon_emissions_g, FInt(1))
                  THEN Formatted(carbon_emissions_g, 3, "g")
                  ELSE Formatted(carbon_emissions_g, 2, "g"),
                energy_kwh |-> total_energy_kwh,
                equivalent_metrics |->
                  calculate_equivalents(self, carbon_emissions_g).value]]
        Emissions(total_energy_kwh) ==
            Return(total_energy_kwh, FMul(total_energy_kwh, FInt(self.carbon_factor)))
    IN Emissions(FMul(energy_consumption.total_energy_uj, self.uj_to_kwh))

\* a get_efficiency_rating whose upper bounds are exclusive
get_efficiency_rating_exclusive(self, analysis_results) ==
    LET Rating(energy_per_line) ==
            IF FLess(energy_per_line, FDec(2, <<10>>)) THEN "A++ (Extremely Efficient)"
            ELSE IF FLess(energy_per_line, FDec(5, <<10>>)) THEN "A+ (Very Efficient)"
            ELSE IF FLess(energy_per_line, FInt(1)) THEN "A (Efficient)"
            ELSE IF FLess(energy_per_line, FInt(2)) THEN "B (Moderately Efficient)"
            ELSE IF FLess(energy_per_line, FInt(5)) THEN "C (Below Average)"
            ELSE IF FLess(energy_per_line, FInt(10)) THEN "D (Inefficient)"
            ELSE "F (Very Inefficient)"
        Per(energy_data, lines_of_code) ==
            IF lines_of_code = 0
            THEN [raised |-> "ZeroDivisionError", self |-> self,
                  analysis_results |-> analysis_results, value |-> <<>>]
            ELSE [raised |-> "None", self |-> self,
                  analysis_results |-> analysis_results,
                  value |-> Rating(FDivBy(energy_data.total_energy_uj, <<lines_of_code>>))]
    IN Per(calculate_energy_consumption(self, analysis_results).value,
           Get(analysis_results, "lines_of_code", 1))

\* CarbonCalculator.get_efficiency_rating(analysis_results)
get_efficiency_rating(self, analysis_results) ==
    LET Rating(energy_per_line) ==
            IF FLeq(energy_per_line, FDec(2, <<10>>)) THEN "A++ (Extremely Efficient)"
            ELSE IF FLeq(energy_per_line, FDec(5, <<10>>)) THEN "A+ (Very Efficient)"
            ELSE IF FLeq(energy_per_line, FInt(1)) THEN "A (Efficient)"
            ELSE IF FLeq(energy_per_line, FInt(2)) THEN "B (Moderately Efficient)"
            ELSE IF FLeq(energy_per_line, FInt(5)) THEN "C (Below Average)"
            ELSE IF FLeq(energy_per_line, FInt(10)) THEN "D (Inefficient)"
            ELSE "F (Very Inefficient)"
        Per(energy_data, lines_of_code) ==
            IF lines_of_code = 0
            THEN [raised |-> "ZeroDivisionError", self |-> self,
                  analysis_results |-> analysis_results, value |-> <<>>]
            ELSE [raised |-> "None", self |-> self,
                  analysis_results |-> analysis_results,
                  value |-> Rating(FDivBy(energy_data.total_energy_uj, <<lines_of_code>>))]
    IN Per(calculate_energy_consumption(self, analysis_results).value,
           Get(analysis_results, "lines_of_code", 1))

-----------------------------------------------------------------------------
(* class AIRefactorEngine.  A string with line breaks in it is the sequence *)
(* of its lines.                                                            *)

RECURSIVE TokensIn(_, _, _, _)
\* the tokens of line that lie after character a and up to character b (a
\* word is one token), the line's first token starting after character at
TokensIn(line, at, a, b) ==
    IF line = <<>> THEN <<>>
    ELSE (IF a <= at /\ at + Len(Chars(Head(line))) <= b THEN <<Head(line)>> ELSE <<>>)
         \o TokensIn(Tail(line), at + Len(Chars(Head(line))), a, b)

\* AIRefactorEngine._optimize_range_len_pattern(line): the lines of the
\* string it returns.  The pattern is
\* for\s+(\w+)\s+in\s+range\s*\(\s*len\s*\(\s*(\w+)\s*\)\s*\):
\* cut before and after its two groups
optimize_range_len_pattern(line) ==
    LET ForRe == Lit(Chars("for")) \o <<Plus(SpaceChars)>>
        WordRe == <<Plus(WordChars)>>
        InRangeLenRe ==
            <<Plus(SpaceChars)>> \o Lit(Chars("in")) \o <<Plus(SpaceChars)>>
              \o Lit(Chars("range")) \o <<WS>> \o Lit(Chars("(")) \o <<WS>>
              \o Lit(Chars("len")) \o <<WS>> \o Lit(Chars("(")) \o <<WS>>
        CloseRe == <<WS>> \o Lit(Chars(")")) \o <<WS>> \o Lit(Chars(")")) \o Lit(Chars(":"))
        \* where the greedy match of pat from pos ends, rest matching after it
        Longest(pat, rest, s, pos) ==
            Max({e \in Ends(pat, s, pos) : Ends(rest, s, e) # {}})
        \* ' ' * n
        Spaces(n) == [i \in 1..n |-> " "]
        Rewritten(spacing, index_var, collection_var) ==
            << spacing \o <<"#", " ", "Optimized", ":", " ", "Use", " ", "enumerate",
                            "(", ")", " ", "or", " ", "direct", " ", "iteration">>,
               spacing \o <<"for", " ">> \o index_var \o <<",", " ", "item", " ", "in",
                                                          " ", "enumerate", "(">>
                       \o collection_var \o <<")", ":">> >>
        Group2(s, a1, b1, a2) ==
            Rewritten(Spaces(Indent(line)), TokensIn(line, 0, a1, b1),
                      TokensIn(line, 0, a2, Longest(WordRe, CloseRe, s, a2)))
        Between(s, a1, b1) ==
            Group2(s, a1, b1, Longest(InRangeLenRe, WordRe \o CloseRe, s, b1))
        Group1(s, a1) ==
            Between(s, a1, Longest(WordRe, InRangeLenRe \o WordRe \o CloseRe, s, a1))
        From(s, pos) ==
            Group1(s, Longest(ForRe, WordRe \o InRangeLenRe \o WordRe \o CloseRe, s, pos))
        Search(s, starts) == IF starts = {} THEN <<line>> ELSE From(s, Min(starts))
        In(s) ==
            Search(s, {pos \in 0..Len(s) :
                         Ends(ForRe \o WordRe \o InRangeLenRe \o WordRe \o CloseRe, s, pos) # {}})
    IN In(Text(line))

\* the loop of _apply_basic_optimizations: the strings appended to
\* optimized_lines
OptimizedLines(lines) ==
    [i \in DOMAIN lines |->
       IF Contains(Text(lines[i]), Chars("range") \o Chars("(") \o Chars("len") \o Chars("("))
          /\ Contains(Text(lines[i]), Chars("for") \o Chars(" "))
       THEN optimize_range_len_pattern(lines[i])
       ELSE IF /\ Contains(Text(lines[i]), Chars(".") \o Chars("append") \o Chars("("))
               /\ i > 1
               /\ Contains(Text(lines[i - 1]), Chars("for") \o Chars(" "))
       THEN << lines[i] \o <<" ", " ", "#", " ", "Consider", " ", "using", " ", "list",
                             " ", "comprehension">> >>
       ELSE << lines[i] >>]

\* AIRefactorEngine._apply_basic_optimizations(code, analysis_results):
\* '\n'.join(optimized_lines), as lines
apply_basic_optimizations(src, analysis_results) == Flatten(OptimizedLines(src))

\* str.strip() of a line
RECURSIVE Strip(_)
Strip(line) ==
    IF line # <<>> /\ IsSpaceTok(Head(line)) THEN Strip(Tail(line))
    ELSE IF line # <<>> /\ IsSpaceTok(line[Len(line)]) THEN Strip(SubSeq(line, 1, Len(line) - 1))
    ELSE line

\* AIRefactorEngine._refactor_while_loop(code, line_number): which of its
\* two texts it returns
refactor_while_loop(src, line_number) ==
    IF /\ line_number <= Len(src)
       /\ Contains(Text(src[line_number]), Chars("while"))
       /\ Contains(Text(src[line_number]), Chars("len") \o Chars("("))
    THEN "# Original while loop: ... for i, item in enumerate(items): process(item)"
    ELSE "# Refactoring suggestion: Consider using for loop or list comprehension"

\* AIRefactorEngine._refactor_range_len(code, line_number)
refactor_range_len(src, line_number) ==
    "# Original inefficient pattern: ... for i, item in enumerate(items): print(...)"

\* AIRefactorEngine._remove_unused_import(code, line_number)
remove_unused_import(src, line_number) ==
    IF line_number <= Len(src)
    THEN [text |-> "# Remove this unused import: ...", import_line |-> Strip(src[line_number])]
    ELSE [text |-> "# Remove unused import to optimize memory usage", import_line |-> <<>>]

RECURSIVE SectionsFrom(_, _, _)
\* the loop of generate_refactored_code over the issues, refactored_sections
\* so far (a later issue with the key of an earlier one replaces its entry)
SectionsFrom(src, issues, refactored_sections) ==
    IF issues = <<>> THEN refactored_sections
    ELSE LET issue == Head(issues)
         IN SectionsFrom(src, Tail(issues),
              CASE issue.type = "while_loop" ->
                     (<<"while_loop_line_", issue.line>> :> refactor_while_loop(src, issue.line))
                       @@ refactored_sections
                [] issue.type = "inefficient_range_len" ->
                     (<<"range_len_line_", issue.line>> :> refactor_range_len(src, issue.line))
                       @@ refactored_sections
                [] issue.type = "unused_import" ->
                     (<<"unused_import_line_", issue.line>> :> remove_unused_import(src, issue.line))
                       @@ refactored_sections
                [] OTHER -> refactored_sections)

\* AIRefactorEngine._generate_improvement_summary(issues): each sentence
\* with the count it quotes (0: none)
generate_improvement_summary(issues) ==
    LET Count(t) == Cardinality({i \in DOMAIN issues : issues[i].type = t})
        Sentence(t, text) ==
            IF Count(t) > 0 THEN <<[text |-> text, count |-> Count(t)]>> ELSE <<>>
    IN Sentence("while_loop", "Converted {n} while loop(s) to more efficient for loops")
       \o Sentence("inefficient_range_len",
                   "Optimized {n} range(len()) pattern(s) with direct iteration")
       \o Sentence("unused_import",
                   "Removed {n} unused import(s) to reduce memory footprint")
       \o <<[text |-> "Applied Pythonic coding patterns for better readability", count |-> 0],
            [text |-> "Reduced computational complexity where possible", count |-> 0],
            [text |-> "Improved code maintainability and performance", count |-> 0]>>

\* AIRefactorEngine.generate_refactored_code(original_code, analysis_results)
generate_refactored_code(original_code, analysis_results) ==
    [raised |-> "None",
     value |->
       [optimized_full_code |-> apply_basic_optimizations(original_code, analysis_results),
        specific_improvements |->
          SectionsFrom(original_code, Get(analysis_results, "issues", <<>>), <<>>),
        improvement_summary |->
          generate_improvement_summary(Get(analysis_results, "issues", <<>>))]]

-----------------------------------------------------------------------------
(* class DatabaseManager.  The database is its committed rows; a session    *)
(* holds the rows added and changed in it that are not committed yet.       *)

\* the tables after create_tables on an empty database: users and
\* leaderboard rows by username, analyses rows in the order of their ids
DatabaseInit == [users |-> <<>>, analyses |-> <<>>, leaderboard |-> <<>>]

\* self.get_session(): a session with nothing pending
get_session == [users |-> <<>>, analyses |-> <<>>, leaderboard |-> <<>>]

\* session.commit(): the pending rows are written
commit(database, session) ==
    [users |-> session.users @@ database.users,
     analyses |-> database.analyses \o session.analyses,
     leaderboard |-> session.leaderboard @@ database.leaderboard]

\* leaving 'with self.get_session() as session': session.close() rolls back
\* what was not committed
close(database, session) == database

\* User(username=username): the column defaults
User(username) ==
    [username |-> username, total_analyses |-> 0, best_score |-> 0,
     average_score |-> FZero, current_level |-> 1]

\* DatabaseManager.add_user(username): the database after it
add_user(database, username) ==
    IF username \notin DOMAIN database.users
    THEN close(commit(database, [get_session EXCEPT !.users = (username :> User(username))]),
               get_session)
    ELSE close(database, get_session)

\* session.query(Analysis).filter(Analysis.username == username).all()
RECURSIVE AnalysesOf(_, _)
AnalysesOf(analyses, username) ==
    IF analyses = <<>> THEN <<>>
    ELSE (IF Head(analyses).username = username THEN <<Head(analyses)>> ELSE <<>>)
         \o AnalysesOf(Tail(analyses), username)

RECURSIVE SumOf(_, _)
\* sum(a.<column> for a in analyses)
SumOf(analyses, column) ==
    IF analyses = <<>> THEN 0 ELSE Head(analyses)[column] + SumOf(Tail(analyses), column)

\* DatabaseManager._update_leaderboard(session, ...): the session after it
update_leaderboard(session, username, best_score, average_score, total_analyses, current_level) ==
    [session EXCEPT !.leaderboard =
        (username :> [username |-> username, best_score |-> best_score,
                      average_score |-> average_score, total_analyses |-> total_analyses,
                      current_level |-> current_level]) @@ @]

\* DatabaseManager._update_user_stats(session, username): the session after
\* it, the queries reading the committed rows
update_user_stats(database, session, username) ==
    LET Level(total_analyses, average_score) ==
            IF total_analyses >= 25 /\ FLeq(FInt(90), average_score) THEN 6
            ELSE IF total_analyses >= 15 /\ FLeq(FInt(85), average_score) THEN 5
            ELSE IF total_analyses >= 10 /\ FLeq(FInt(75), average_score) THEN 4
            ELSE IF total_analyses >= 5 /\ FLeq(FInt(60), average_score) THEN 3
            ELSE IF total_analyses >= 3 /\ FLeq(FInt(40), average_score) THEN 2
            ELSE 1
        Update(total_analyses, best_score, average_score, current_level) ==
            IF username \in DOMAIN database.users
            THEN update_leaderboard(
                   [session EXCEPT !.users =
                      (username :> [database.users[username] EXCEPT
                                      !.total_analyses = total_analyses,
                                      !.best_score = best_score,
                                      !.average_score = average_score,
                                      !.current_level = current_level]) @@ @],
                   username, best_score, average_score, total_analyses, current_level)
            ELSE session
        Stats(total_analyses, scores, average_score) ==
            Update(total_analyses, Max(scores), average_score,
                   Level(total_analyses, average_score))
        Of(analyses) ==
            IF analyses = <<>> THEN session
            ELSE Stats(Len(analyses), {analyses[i].green_score : i \in DOMAIN analyses},
                       FDivBy(FInt(SumOf(analyses, "green_score")), <<Len(analyses)>>))
    IN Of(AnalysesOf(database.analyses, username))

\* DatabaseManager.save_analysis(username, green_score, analysis_results):
\* the database after it and the value returned, no SQLAlchemyError raised
save_analysis(database, username, green_score, analysis_results) ==
    LET Return(d) == [db |-> d, value |-> TRUE]
        Updated(d) == Return(close(d, update_user_stats(d, get_session, username)))
        Added(d) ==
            Updated(commit(d, [get_session EXCEPT !.analyses =
                                 <<[username |-> username, green_score |-> green_score,
                                    lines_of_code |-> Get(analysis_results, "lines_of_code", 0)]>>]))
    IN Added(add_user(database, username))

\* the first n rows of ... .order_by(Analysis.created_at.desc()).limit(n)
Recent(analyses, n) ==
    [i \in 1..Min({n, Len(analyses)}) |-> analyses[Len(analyses) + 1 - i]]

\* DatabaseManager.get_user_stats(username), without improvement_trend:
\* its older_avg divides by len(recent_analyses[5:])
get_user_stats(database, username) ==
    LET Return(user, recent_analyses) ==
            IF Len(recent_analyses) >= 5 /\ Len(recent_analyses) - 5 = 0
            THEN [raised |-> "ZeroDivisionError", value |-> <<>>]
            ELSE [raised |-> "None",
                  value |-> [total_analyses |-> user.total_analyses,
                             average_score |-> user.average_score,
                             best_score |-> user.best_score,
                             current_level |-> user.current_level,
                             total_lines_analyzed |-> SumOf(recent_analyses, "lines_of_code"),
                             recent_score |-> IF recent_analyses = <<>> THEN 0
                                              ELSE recent_analyses[1].green_score]]
    IN IF username \notin DOMAIN database.users
       THEN [raised |-> "None",
             value |-> [total_analyses |-> 0, average_score |-> FZero, best_score |-> 0,
                        current_level |-> 1, total_lines_analyzed |-> 0, recent_score |-> 0]]
       ELSE Return(database.users[username],
                   Recent(AnalysesOf(database.analyses, username), 10))

\* the orders ... .order_by(average_score.desc(), best_score.desc(),
\* total_analyses.desc()) can return the leaderboard rows in
Ranked(leaderboard) ==
    LET Before(a, b) ==
            \/ FLess(b.average_score, a.average_score)
            \/ /\ a.average_score = b.average_score
               /\ \/ a.best_score > b.best_score
                  \/ a.best_score = b.best_score /\ a.total_analyses > b.total_analyses
    IN {order \in [1..Cardinality(DOMAIN leaderboard) -> DOMAIN leaderboard] :
          /\ \A i, j \in DOMAIN order : i # j => order[i] # order[j]
          /\ \A i, j \in DOMAIN order :
                i < j => ~Before(leaderboard[order[j]], leaderboard[order[i]])}

\* DatabaseManager.get_leaderboard(limit), the rows in the given order
get_leaderboard(database, order, limit) ==
    [i \in 1..Min({limit, Len(order)}) |->
       [username |-> database.leaderboard[order[i]].username,
        best_score |-> database.leaderboard[order[i]].best_score,
        average_score |-> database.leaderboard[order[i]].average_score,
        total_analyses |-> database.leaderboard[order[i]].total_analyses,
        current_level |-> database.leaderboard[order[i]].current_level,
        composite_score |->
           FAdd(FMul(database.leaderboard[order[i]].average_score, FDec(7, <<10>>)),
                FMul(FInt(database.leaderboard[order[i]].best_score), FDec(3, <<10>>)))]]

-----------------------------------------------------------------------------
(* class HistoryTracker in file-storage mode (use_database is False): its   *)
(* history_data, and the clock datetime.now() reads                         *)

\* the entries kept: self.history_data[-50:]
HistoryCap == 50

\* HistoryTracker(use_database=False) without a history file
HistoryTrackerInit == [history_data |-> <<>>, now |-> 0]

\* an add_analysis that keeps the first entries instead of the last
add_analysis_keeping_first(self, username, green_score, analysis_results) ==
    LET Kept(history_data) ==
            IF Len(history_data) > HistoryCap
            THEN SubSeq(history_data, 1, HistoryCap)
            ELSE history_data
    IN [self |-> [history_data |->
                    Kept(Append(self.history_data,
                                [timestamp |-> self.now, username |-> username,
                                 green_score |-> green_score,
                                 lines_of_code |-> Get(analysis_results, "lines_of_code", 0)])),
                  now |-> self.now + 1],
        value |-> TRUE]

\* HistoryTracker.add_analysis(username, green_score, analysis_results): the
\* tracker after it and the value returned
add_analysis(self, username, green_score, analysis_results) ==
    LET Kept(history_data) ==
            IF Len(history_data) > HistoryCap
            THEN SubSeq(history_data, Len(history_data) - HistoryCap + 1, Len(history_data))
            ELSE history_data
    IN [self |-> [history_data |->
                    Kept(Append(self.history_data,
                                [timestamp |-> self.now, username |-> username,
                                 green_score |-> green_score,
                                 lines_of_code |-> Get(analysis_results, "lines_of_code", 0)])),
                  now |-> self.now + 1],
        value |-> TRUE]

\* HistoryTracker.clear_history()
clear_history(self) == [self EXCEPT !.history_data = <<>>]

-----------------------------------------------------------------------------
(* The calls of a client on one CodeAnalyzer *)

\* the longest source text, in lines
MaxLines == 3

\* the lines a client types into the analyzed source
AnalyzerLines ==
    { <<>>,
      <<"#", " ", "os">>,
      <<"import", " ", "os">>,
      <<"import", " ", "os", ";", " ", "list", "(", "range", "(", "3", ")", ")">>,
      <<"while", " ", "x", ":">>,
      <<"while", " ", "x", ":", " ", "list", "(", "range", "(", "len", "(", "x", ")", ")", ")">>,
      <<"for", " ", "i", " ", "in", " ", "range", "(", "len", "(", "x", ")", ")", ":">>,
      <<"def", " ", "f", "(", ")", ":">>,
      <<"    ", "pass">>,
      <<"    ", "while", " ", "x", ":", " ", "pass">>,
      <<"    ", "def", " ", "f", "(", ")", ":", " ", "pass">>,
      <<"    ", "async", " ", "def", " ", "f", "(", ")", ":", " ", "pass">>,
      <<"    ", "import", " ", "x", ",", " ", "os">>,
      <<"x", " ", "=", " ", ")">>,
      <<"x", " ", "=", " ", "1+...+1">>,
      <<"pass", "\r", "while", " ", "x", ":", " ", "pass">>,
      <<"pass", "\r", "import", " ", "os">> }

NoCall == [op |-> "none", raised |-> "None", value |-> <<>>]

\* analyzer = CodeAnalyzer(); the client has typed nothing yet
Init ==
    /\ code = << <<>> >>
    /\ self_issues = <<>>
    /\ calls = {}
    /\ calc = CarbonCalculatorInit
    /\ repeated = FALSE
    /\ ret = NoCall
    /\ ran = <<>>
    /\ args = <<>>
    /\ db = DatabaseInit
    /\ tracker = HistoryTrackerInit

\* the client replaces the text by the one line l
SetCode(l) ==
    /\ code' = <<l>>
    /\ ret' = NoCall
    /\ ran' = <<>>
    /\ args' = <<>>
    /\ repeated' = FALSE
    /\ UNCHANGED <<self_issues, calls, calc, db, tracker>>

\* the client adds the line l to the text
AppendLine(l) ==
    /\ Len(code) < MaxLines
    /\ code' = Append(code, l)
    /\ ret' = NoCall
    /\ ran' = <<>>
    /\ args' = <<>>
    /\ repeated' = FALSE
    /\ UNCHANGED <<self_issues, calls, calc, db, tracker>>

\* analyzer.analyze(code)
Analyze ==
    \E r \in {analyze([issues |-> self_issues], code)} :
       /\ self_issues' = r.self.issues
       /\ ret' = [op |-> "analyze", raised |-> r.raised, value |-> r.results]
       /\ ran' = r.steps
       /\ args' = <<>>
       /\ calls' = calls \cup {IF r.raised = "None" THEN "returned" ELSE "raised"}
       /\ repeated' = FALSE
       /\ UNCHANGED <<code, calc, db, tracker>>

\* analyzer.calculate_green_score(results), results being what analyze returned
CalculateGreenScore ==
    /\ ret.op = "analyze"
    /\ ret.raised = "None"
    /\ args' = ret.value
    /\ ret' = [op |-> "calculate_green_score", raised |-> "None",
               value |-> calculate_green_score(ret.value)]
    /\ UNCHANGED <<code, self_issues, ran, calls, calc, repeated, db, tracker>>

Next ==
    \/ \E l \in AnalyzerLines : SetCode(l)
    \/ \E l \in AnalyzerLines : AppendLine(l)
    \/ Analyze
    \/ CalculateGreenScore

Spec == Init /\ [][Next]_vars

-----------------------------------------------------------------------------
(* calculate_green_score on the dictionaries a client can pass: any subset   *)
(* of the four keys it reads, with non-negative counts                       *)

\* the largest count of one kind of issue
MaxCount == 7
\* the largest complexity score
MaxComplexity == 45

ScoreKeys ==
    {"while_loop_count", "unused_imports_count", "inefficient_patterns_count",
     "complexity_score"}

KeyLimit(key) == IF key = "complexity_score" THEN MaxComplexity ELSE MaxCount

\* the client sets the key to 0 or raises its count by one
SetCount(key) ==
    /\ key \in DOMAIN args => args[key] < KeyLimit(key)
    /\ args' = IF key \in DOMAIN args
               THEN [args EXCEPT ![key] = @ + 1]
               ELSE (key :> 0) @@ args
    /\ ret' = NoCall
    /\ UNCHANGED <<code, self_issues, ran, calls, calc, repeated, db, tracker>>

\* analyzer.calculate_green_score(args)
GreenScoreOfArgs ==
    /\ ret' = [op |-> "calculate_green_score", raised |-> "None",
               value |-> calculate_green_score(args)]
    /\ UNCHANGED <<code, self_issues, ran, args, calls, calc, repeated, db, tracker>>

NextScore ==
    \/ \E key \in ScoreKeys : SetCount(key)
    \/ GreenScoreOfArgs

SpecScore == Init /\ [][NextScore]_vars

-----------------------------------------------------------------------------
(* The calls of a client on one SecurityChecker *)

SecurityLines ==
    { <<>>,
      <<"eval", "(", "user_input", ")">>,
      <<"#", " ", "Eval", "(", "x", ")">>,
      <<"assert", " ", "x">>,
      <<"debug", " ", "=", " ", "True">>,
      <<"random", ".", "choice", "(", "x", ")">>,
      <<"eval", "(", "eval", "(", "x", ")", ")", ";", " ", "exec", "(", "x", ")">>,
      <<"x", " ", "=", " ", ")">>,
      <<"x", " ", "=", " ", "1+...+1">> }

\* checker.analyze_security(code)
AnalyzeSecurity ==
    \E r \in {analyze_security(code)} :
       /\ ret' = [op |-> "analyze_security", raised |-> r.raised, value |-> r.result]
       /\ ran' = <<>>
       /\ args' = <<>>
       /\ UNCHANGED <<code, self_issues, calls, calc, repeated, db, tracker>>

\* checker._get_risk_level(s), on a client that has typed no text
GetRiskLevel(s) ==
    /\ code = << <<>> >>
    /\ args' = s
    /\ ret' = [op |-> "get_risk_level", raised |-> "None", value |-> get_risk_level(s)]
    /\ UNCHANGED <<code, self_issues, ran, calls, calc, repeated, db, tracker>>

NextSecurity ==
    \/ \E l \in SecurityLines : SetCode(l)
    \/ \E l \in SecurityLines : AppendLine(l)
    \/ AnalyzeSecurity
    \/ \E s \in 0..100 : GetRiskLevel(s)

SpecSecurity == Init /\ [][NextSecurity]_vars

-----------------------------------------------------------------------------
(* _calculate_security_score on the lists of issues the checker builds *)

\* the longest list of security issues
MaxIssues == 6

Severities == {"HIGH", "MEDIUM", "LOW"}

\* one more issue of severity sev is found
AddIssue(sev) ==
    /\ Len(args) < MaxIssues
    /\ args' = Append(args, SecIssue("found", Len(args) + 1, sev))
    /\ ret' = NoCall
    /\ UNCHANGED <<code, self_issues, ran, calls, calc, repeated, db, tracker>>

\* checker._calculate_security_score(args)
SecurityScoreOfArgs ==
    /\ ret' = [op |-> "calculate_security_score", raised |-> "None",
               value |-> calculate_security_score(args)]
    /\ UNCHANGED <<code, self_issues, ran, args, calls, calc, repeated, db, tracker>>

NextSecScore ==
    \/ \E sev \in Severities : AddIssue(sev)
    \/ SecurityScoreOfArgs

SpecSecScore == Init /\ [][NextSecScore]_vars

-----------------------------------------------------------------------------
(* The calls of a client on one CodeAnalyzer, on modules of functions *)

\* the longest module of functions, in lines
MaxFunctions == 10

FunctionLines ==
    { <<"def", " ", "f", "(", ")", ":", " ", "pass">>,
      <<"def", " ", "f", "(", ")", ":">>,
      <<"    ", "def", " ", "f", "(", ")", ":", " ", "pass">>,
      <<"    ", "pass">> }

\* the client pastes a one-line function above the text
PasteFunction ==
    /\ Len(code) < MaxFunctions
    /\ code' = << <<"def", " ", "f", "(", ")", ":", " ", "pass">> >> \o code
    /\ ret' = NoCall
    /\ ran' = <<>>
    /\ args' = <<>>
    /\ repeated' = FALSE
    /\ UNCHANGED <<self_issues, calls, calc, db, tracker>>

NextFunctions ==
    \/ \E l \in FunctionLines : SetCode(l)
    \/ \E l \in FunctionLines : AppendLine(l)
    \/ PasteFunction
    \/ Analyze
    \/ CalculateGreenScore

SpecFunctions == Init /\ [][NextFunctions]_vars

-----------------------------------------------------------------------------
(* The calls of a client on one CodeAnalyzer and one CarbonCalculator *)

CarbonLines ==
    { <<"#", " ", "os">>,
      <<"import", " ", "os">>,
      <<"list", "(", "range", "(", "3", ")", ")">>,
      <<"for", " ", "i", " ", "in", " ", "range", "(", "len", "(", "x", ")", ")", ":", " ", "pass">>,
      <<"while", " ", "x", ":", " ", "pass">>,
      <<"def", " ", "f", "(", ")", ":", " ", "import", " ", "os">> }

\* the energies, in units of 10^9 microjoules, of the dictionaries a client
\* prepares for calculate_carbon_footprint
PreparedEnergies == {1, 5, 100}

\* the argument of a call: what the last call returned when that is of the
\* kind the call takes, else the object of that kind the client kept
Argument(kind, producer) ==
    IF ret.op = producer /\ ret.raised = "None" THEN ret.value ELSE args[kind]

HasArgument(kind, producer) ==
    (ret.op = producer /\ ret.raised = "None") \/ kind \in DOMAIN args

\* calculator.calculate_energy_consumption(analysis_results)
CalculateEnergy ==
    /\ HasArgument("analysis_results", "analyze")
    /\ \E r \in {calculate_energy_consumption(calc, Argument("analysis_results", "analyze"))} :
          /\ calc' = r.self
          /\ args' = ("analysis_results" :> r.analysis_results) @@ args
          /\ ret' = [op |-> "calculate_energy_consumption", raised |-> r.raised,
                     value |-> r.value]
    /\ repeated' = (ret.op = "calculate_energy_consumption")
    /\ UNCHANGED <<code, self_issues, ran, calls, db, tracker>>

\* calculator.get_efficiency_rating(analysis_results)
GetEfficiencyRating ==
    /\ HasArgument("analysis_results", "analyze")
    /\ \E r \in {get_efficiency_rating(calc, Argument("analysis_results", "analyze"))} :
          /\ calc' = r.self
          /\ args' = ("analysis_results" :> r.analysis_results) @@ args
          /\ ret' = [op |-> "get_efficiency_rating", raised |-> r.raised,
                     value |-> r.value]
    /\ repeated' = (ret.op = "get_efficiency_rating")
    /\ UNCHANGED <<code, self_issues, ran, calls, db, tracker>>

\* the client, having typed no text, prepares an energy dictionary
PrepareEnergy(n) ==
    /\ code = << <<>> >>
    /\ args' = [energy_consumption |->
                  [total_energy_uj |-> FMul(FInt(n), FInt(1000000000))]]
    /\ ret' = NoCall
    /\ repeated' = FALSE
    /\ UNCHANGED <<code, self_issues, ran, calls, calc, db, tracker>>

\* the function counts of the analysis results a client prepares, of 5 lines
\* of code each: the energy per line is 0.1 + 0.1 * function_count
PreparedFunctionCounts == {1, 2, 4, 9, 19, 49, 99, 100}

\* the client, having typed no text, prepares analysis results
PrepareResults(lines_of_code, function_count) ==
    /\ code = << <<>> >>
    /\ args' = [analysis_results |->
                  [lines_of_code |-> lines_of_code, function_count |-> function_count,
                   import_count |-> 0, while_loop_count |-> 0, for_loop_count |-> 0,
                   inefficient_patterns_count |-> 0, unused_imports_count |-> 0,
                   issues |-> <<>>, complexity_score |-> 2 * function_count]]
    /\ ret' = NoCall
    /\ repeated' = FALSE
    /\ UNCHANGED <<code, self_issues, ran, calls, calc, db, tracker>>

\* calculator.calculate_carbon_footprint(energy_consumption)
CalculateCarbon ==
    /\ HasArgument("energy_consumption", "calculate_energy_consumption")
    /\ \E r \in {calculate_carbon_footprint(calc,
                    Argument("energy_consumption", "calculate_energy_consumption"))} :
          /\ calc' = r.self
          /\ args' = ("energy_consumption" :> r.energy_consumption) @@ args
          /\ ret' = [op |-> "calculate_carbon_footprint", raised |-> r.raised,
                     value |-> r.value]
    /\ repeated' = (ret.op = "calculate_carbon_footprint")
    /\ UNCHANGED <<code, self_issues, ran, calls, db, tracker>>

NextCarbon ==
    \/ \E l \in CarbonLines : SetCode(l)
    \/ \E l \in CarbonLines : AppendLine(l)
    \/ Analyze
    \/ CalculateEnergy
    \/ GetEfficiencyRating
    \/ \E n \in PreparedEnergies : PrepareEnergy(n)
    \/ \E n \in PreparedFunctionCounts : PrepareResults(5, n)
    \/ CalculateCarbon

SpecCarbon == Init /\ [][NextCarbon]_vars

-----------------------------------------------------------------------------
(* The calls of a client on one CodeAnalyzer and one AIRefactorEngine *)

RefactorLines ==
    { <<"import", " ", "os">>,
      <<"for", " ", "i", " ", "in", " ", "range", "(", "len", "(", "x", ")", ")", ":", " ", "pass">>,
      <<"for", " ", "i", " ", "in", " ", "range", "(", "len", "(", "x", ")", ")", ":">>,
      <<"    ", "pass">>,
      <<"    ", "x", ".", "append", "(", "i", ")">>,
      <<"for", " ", "i", " ", "in", " ", "range", "(", "len", "(", "x", ".", "x", ")", ")", ":",
        " ", "x", ".", "append", "(", "i", ")">>,
      <<"while", " ", "x", ":", " ", "list", "(", "range", "(", "len", "(", "x", ")", ")", ")">> }

\* ai_refactor.generate_refactored_code(code_input, analysis_results), after
\* the analysis of the text has returned
GenerateRefactoredCode ==
    /\ ret.op = "analyze" /\ ret.raised = "None"
    /\ \E r \in {generate_refactored_code(code, ret.value)} :
          ret' = [op |-> "generate_refactored_code", raised |-> r.raised, value |-> r.value]
    /\ args' = [analysis_results |-> ret.value]
    /\ repeated' = FALSE
    /\ UNCHANGED <<code, self_issues, ran, calls, calc, db, tracker>>

\* the client replaces the text they typed (it has no comment) by the
\* optimized code shown to them
AdoptOptimizedCode ==
    /\ ret.op = "generate_refactored_code"
    /\ \A i \in DOMAIN code : "#" \notin Range(code[i])
    /\ code' = ret.value.optimized_full_code
    /\ args' = [original_code |-> code]
    /\ ret' = NoCall
    /\ repeated' = FALSE
    /\ UNCHANGED <<self_issues, ran, calls, calc, db, tracker>>

NextRefactor ==
    \/ \E l \in RefactorLines : SetCode(l)
    \/ \E l \in RefactorLines : AppendLine(l)
    \/ Analyze
    \/ GenerateRefactoredCode
    \/ AdoptOptimizedCode

SpecRefactor == Init /\ [][NextRefactor]_vars

-----------------------------------------------------------------------------
(* The calls of a client on one DatabaseManager *)

Usernames == {"ann", "bob"}

GreenScores == {20, 100}

\* the most analyses saved
MaxAnalyses == 5

\* db_manager.save_analysis(username, green_score, analysis_results)
SaveAnalysis(username, green_score) ==
    /\ Len(db.analyses) < MaxAnalyses
    /\ \E r \in {save_analysis(db, username, green_score, [lines_of_code |-> 1])} :
          /\ db' = r.db
          /\ ret' = [op |-> "save_analysis", raised |-> "None", value |-> r.value]
    /\ args' = [username |-> username, green_score |-> green_score]
    /\ UNCHANGED <<code, self_issues, ran, calls, calc, repeated, tracker>>

\* db_manager.get_user_stats(username)
GetUserStats(username) ==
    /\ \E r \in {get_user_stats(db, username)} :
          ret' = [op |-> "get_user_stats", raised |-> r.raised, value |-> r.value]
    /\ args' = [username |-> username]
    /\ UNCHANGED <<code, self_issues, ran, calls, calc, repeated, db, tracker>>

\* db_manager.get_leaderboard()
GetLeaderboard ==
    /\ \E order \in Ranked(db.leaderboard) :
          ret' = [op |-> "get_leaderboard", raised |-> "None",
                  value |-> get_leaderboard(db, order, 10)]
    /\ args' = <<>>
    /\ UNCHANGED <<code, self_issues, ran, calls, calc, repeated, db, tracker>>

NextDatabase ==
    \/ \E username \in Usernames, green_score \in GreenScores :
          SaveAnalysis(username, green_score)
    \/ \E username \in Usernames : GetUserStats(username)
    \/ GetLeaderboard

SpecDatabase == Init /\ [][NextDatabase]_vars

-----------------------------------------------------------------------------
(* The calls of a client on one HistoryTracker in file-storage mode *)

\* the most add_analysis calls
MaxAdds == 53

\* the first calls, whose username and score vary
MaxVaried == 2

\* history_tracker.add_analysis(username, green_score, analysis_results)
AddAnalysis(username, green_score) ==
    /\ tracker.now < MaxAdds
    /\ tracker.now < MaxVaried \/ (username = "ann" /\ green_score = 100)
    /\ \E r \in {add_analysis(tracker, username, green_score, [lines_of_code |-> 1])} :
          /\ tracker' = r.self
          /\ ret' = [op |-> "add_analysis", raised |-> "None", value |-> r.value]
    /\ args' = [username |-> username, green_score |-> green_score]
    /\ UNCHANGED <<code, self_issues, ran, calls, calc, repeated, db>>

\* history_tracker.clear_history()
ClearHistory ==
    /\ tracker' = clear_history(tracker)
    /\ ret' = [op |-> "clear_history", raised |-> "None", value |-> <<>>]
    /\ args' = <<>>
    /\ UNCHANGED <<code, self_issues, ran, calls, calc, repeated, db>>

NextHistory ==
    \/ \E username \in Usernames, green_score \in GreenScores :
          AddAnalysis(username, green_score)
    \/ ClearHistory

SpecHistory == Init /\ [][NextHistory]_vars

-----------------------------------------------------------------------------
(* Properties of CodeAnalyzer.analyze *)

\* analyze has returned a result for the text
AnalyzeReturned == ret.op = "analyze" /\ ret.raised = "None"

\* the number of issues of the given types
CountOfType(issues, types) ==
    Cardinality({i \in DOMAIN issues : issues[i].type \in types})

PatternTypes == {"inefficient_range_len", "unnecessary_list_conversion"}

\* C1: for every source that parses, the issues list has one issue for every
\* counted while loop, inefficient pattern and unused import and no other:
\* its length is the sum of the three counts and the merge neither drops nor
\* duplicates an issue of any kind.
C1_IssuesMatchCounts ==
    AnalyzeReturned =>
       LET r == ret.value
       IN /\ Len(r.issues) = r.while_loop_count + r.inefficient_patterns_count
                               + r.unused_imports_count
          /\ CountOfType(r.issues, {"while_loop"}) = r.while_loop_count
          /\ CountOfType(r.issues, PatternTypes) = r.inefficient_patterns_count
          /\ CountOfType(r.issues, {"unused_import"}) = r.unused_imports_count

\* two issues of different kinds on one line are both in the result
C1_TwoKindsOnOneLine ==
    /\ AnalyzeReturned
    /\ \E i, j \in DOMAIN ret.value.issues :
          /\ ret.value.issues[i].line = ret.value.issues[j].line
          /\ ret.value.issues[i].type = "while_loop"
          /\ ret.value.issues[j].type \in PatternTypes

\* the place of an issue's kind in the merge: while loops, then patterns,
\* then unused imports
MergeRank(issue) ==
    CASE issue.type = "while_loop"    -> 1
      [] issue.type \in PatternTypes  -> 2
      [] issue.type = "unused_import" -> 3

\* C2: the issues list is sorted non-decreasing by line, and issues of one
\* line keep the merge order: while loops, then inefficient patterns, then
\* unused imports.
C2_IssuesSortedStable ==
    AnalyzeReturned =>
       \A i, j \in DOMAIN ret.value.issues :
          i < j =>
             \/ ret.value.issues[i].line < ret.value.issues[j].line
             \/ /\ ret.value.issues[i].line = ret.value.issues[j].line
                /\ MergeRank(ret.value.issues[i]) <= MergeRank(ret.value.issues[j])

\* the sort moved an unused import in front of a while loop, and three kinds
\* of issue tie on one line
C2_SortMovesAndTies ==
    /\ AnalyzeReturned
    /\ \E i, j \in DOMAIN ret.value.issues :
          /\ i < j
          /\ ret.value.issues[i].type = "unused_import"
          /\ ret.value.issues[j].type = "while_loop"
    /\ \E i, j \in DOMAIN ret.value.issues :
          /\ i < j
          /\ ret.value.issues[i].line = ret.value.issues[j].line
          /\ MergeRank(ret.value.issues[i]) < MergeRank(ret.value.issues[j])

-----------------------------------------------------------------------------
(* Properties of CodeAnalyzer.calculate_green_score *)

GreenScoreReturned == ret.op = "calculate_green_score"

\* the count the dictionary passed holds under key, 0 when it has none
CountArg(key) == IF key \in DOMAIN args THEN args[key] ELSE 0

IssueDeductions ==
    CountArg("while_loop_count") * 15 + CountArg("unused_imports_count") * 10
      + CountArg("inefficient_patterns_count") * 12

ComplexityPenalty ==
    IF CountArg("complexity_score") > 20
    THEN (CountArg("complexity_score") - 20) * 2
    ELSE 0

Clamp(x) == IF x < 0 THEN 0 ELSE IF x > 100 THEN 100 ELSE x

\* C3: calculate_green_score returns a value from 0 to 100 for every
\* combination of non-negative counts and complexity.
C3_GreenScoreInRange == GreenScoreReturned => ret.value \in 0..100

\* the deductions exceed 100 and the score is 0
C3_DeductionsBeyond100 ==
    /\ GreenScoreReturned
    /\ IssueDeductions + ComplexityPenalty > 100
    /\ ret.value = 0

\* C4: calculate_green_score is 100 minus 15 a while loop, 10 an unused
\* import, 12 an inefficient pattern and twice the complexity above 20,
\* clamped to 0..100; a complexity of 20 or less costs nothing.
C4_GreenScoreFormula ==
    GreenScoreReturned =>
       ret.value = Clamp(100 - IssueDeductions - ComplexityPenalty)

\* every term of the formula takes part in a score strictly inside 0..100
C4_EveryTermCharged ==
    /\ GreenScoreReturned
    /\ CountArg("while_loop_count") > 0
    /\ CountArg("unused_imports_count") > 0
    /\ CountArg("inefficient_patterns_count") > 0
    /\ CountArg("complexity_score") > 20
    /\ ret.value \in 1..99

-----------------------------------------------------------------------------
(* Properties of SecurityChecker *)

\* the number of issues of severity sev in the list passed
SeverityArgs(sev) ==
    Cardinality({i \in DOMAIN args : args[i].severity = sev})

Penalties ==
    SeverityArgs("HIGH") * 25 + SeverityArgs("MEDIUM") * 10 + SeverityArgs("LOW") * 5

\* C5: the security score of a list of issues is 100 minus 25 a HIGH, 10 a
\* MEDIUM and 5 a LOW issue, floored at 0; it is never above 100 nor below 0.
C5_SecurityScoreFormula ==
    ret.op = "calculate_security_score" =>
       /\ ret.value = IF Penalties > 100 THEN 0 ELSE 100 - Penalties
       /\ ret.value \in 0..100

\* issues of all three severities whose penalties exceed 100: the score is 0
C5_PenaltiesBeyond100 ==
    /\ ret.op = "calculate_security_score"
    /\ \A sev \in Severities : SeverityArgs(sev) > 0
    /\ Penalties > 100
    /\ ret.value = 0

\* the risk level of a score as the bands state it
RiskBand(score) ==
    CASE score >= 90      -> "LOW"
      [] score \in 70..89 -> "MEDIUM"
      [] score \in 50..69 -> "HIGH"
      [] score < 50       -> "CRITICAL"

SecurityReturned == ret.op = "analyze_security" /\ ret.raised = "None"

\* C6: the risk level is LOW from 90 on, MEDIUM from 70 to 89, HIGH from 50 to
\* 69 and CRITICAL below 50 (90 LOW, 89 MEDIUM, 70 MEDIUM, 69 HIGH, 50 HIGH,
\* 49 CRITICAL), and the risk_level analyze_security returns is the level of
\* the security_score it returns.
C6_RiskLevelBands ==
    /\ ret.op = "get_risk_level" => ret.value = RiskBand(args)
    /\ (ret.op = "get_risk_level" /\ args \in {90, 70, 50}) =>
          ret.value = (CASE args = 90 -> "LOW" [] args = 70 -> "MEDIUM" [] args = 50 -> "HIGH")
    /\ (ret.op = "get_risk_level" /\ args \in {89, 69, 49}) =>
          ret.value = (CASE args = 89 -> "MEDIUM" [] args = 69 -> "HIGH" [] args = 49 -> "CRITICAL")
    /\ SecurityReturned => ret.value.risk_level = RiskBand(ret.value.security_score)

\* analyze_security returns a score on the lower bound of a band
C6_ScoreOnBound ==
    /\ SecurityReturned
    /\ ret.value.security_score = 90
    /\ ret.value.risk_level = "LOW"

EvalLine == <<"eval", "(", "user_input", ")">>

\* C7: on a source whose only risky construct is the one call
\* eval(user_input), analyze_security returns exactly one issue, of severity
\* HIGH and a subtype that names eval, and a security_score of 75.
C7_OneEvalIssue ==
    (ret.op = "analyze_security" /\ code = <<EvalLine>>) =>
       /\ ret.raised = "None"
       /\ Len(ret.value.security_issues) = 1
       /\ ret.value.security_issues[1].severity = "HIGH"
       /\ ret.value.security_issues[1].subtype \in {"eval_usage", "dangerous_function_eval"}
       /\ ret.value.security_score = 75

-----------------------------------------------------------------------------
(* Properties of the complexity score *)

\* a result without loops, imports and issues
NoFindings(r) ==
    /\ r.while_loop_count = 0
    /\ r.for_loop_count = 0
    /\ r.import_count = 0
    /\ r.issues = <<>>

\* the line starts a function definition
IsDefLine(line) ==
    \E i \in DOMAIN line :
       /\ line[i] = "def"
       /\ \A j \in 1..(i - 1) : IsSpaceTok(line[j])

\* the deepest nesting of function definitions in a source that parses and
\* whose blocks are function bodies, indented four spaces a level: 1 for a
\* top-level function, 0 without functions
DefDepth(src) ==
    Max({0} \cup {1 + Indent(src[i]) \div 4 : i \in {j \in DOMAIN src : IsDefLine(src[j])}})

\* C8 as stated: without loops, imports and issues the green score is 100 and
\* the complexity score is function_count*2 exactly.
C8_ComplexityIsTwiceFunctions ==
    /\ (AnalyzeReturned /\ NoFindings(ret.value)) =>
          ret.value.complexity_score = ret.value.function_count * 2
    /\ (GreenScoreReturned /\ NoFindings(args)) => ret.value = 100

\* C8: without loops, imports and issues the complexity score is
\* function_count*2 plus twice the deepest nesting of function definitions
\* (function_count*2 only without functions), and the green score is 100
\* up to a complexity of 20 and 100 - 2*(complexity - 20), floored at 0, above.
C8_ComplexityCountsDepth ==
    /\ (AnalyzeReturned /\ NoFindings(ret.value)) =>
          /\ ret.value.complexity_score =
                ret.value.function_count * 2 + DefDepth(code) * 2
          /\ ret.value.function_count > 0 <=>
                ret.value.complexity_score > ret.value.function_count * 2
    /\ (GreenScoreReturned /\ NoFindings(args)) =>
          ret.value = IF args.complexity_score <= 20 THEN 100
                      ELSE Clamp(100 - 2 * (args.complexity_score - 20))

\* a module of functions nested two deep whose complexity is beyond 20
C8_ManyFunctions ==
    /\ GreenScoreReturned
    /\ NoFindings(args)
    /\ DefDepth(code) = 2
    /\ args.complexity_score = args.function_count * 2 + 4
    /\ args.complexity_score > 20
    /\ ret.value < 100

-----------------------------------------------------------------------------
(* Properties of the failures of parsing *)

\* C9: when the source does not parse, analyze raises a SyntaxError after the
\* parse and before any counting, pattern scan or issue compilation, and
\* returns no partial result.
C9_ParseFailureIsSyntaxError ==
    (ret.op = "analyze" /\ Parse(code).outcome # "ok") =>
       /\ ret.raised = "SyntaxError"
       /\ ret.value = <<>>
       /\ ran = <<"reset", "parse">>

\* C10: analyze_security never raises; for a source that does not parse it
\* returns a result of the same shape whose issues are exactly those of the
\* line patterns, with the score, the risk level and the severity counts of
\* those issues.
C10_SecurityNeverRaises ==
    ret.op = "analyze_security" =>
       /\ ret.raised = "None"
       /\ Parse(code).outcome # "ok" =>
             /\ ret.value.security_issues = PatternIssues(code, 1)
             /\ ret.value.security_score = calculate_security_score(PatternIssues(code, 1))
             /\ ret.value.risk_level = RiskBand(ret.value.security_score)
             /\ ret.value.total_vulnerabilities = Len(ret.value.security_issues)
             /\ \A sev \in Severities :
                   CountSeverity(ret.value.security_issues, sev) =
                      (CASE sev = "HIGH"   -> ret.value.high_risk_count
                         [] sev = "MEDIUM" -> ret.value.medium_risk_count
                         [] sev = "LOW"    -> ret.value.low_risk_count)

-----------------------------------------------------------------------------
(* Properties of CarbonCalculator.calculate_energy_consumption *)

\* calculate_energy_consumption has returned a dictionary
EnergyReturned == ret.op = "calculate_energy_consumption" /\ ret.raised = "None"

\* the issues of the analysis results the energy was calculated from
AnalysedIssues == Get(args.analysis_results, "issues", <<>>)

\* C11: the inefficiency penalty is 5.0 for every while-loop issue, 2.0 for
\* every inefficiency-pattern issue (range(len) and list(range) alike) and
\* 0.5 for every unused-import issue.
C11_PenaltyChargesEveryPattern ==
    EnergyReturned =>
       ret.value.inefficiency_penalty =
          FAdd(FAdd(FMul(FInt(5), FInt(CountOfType(AnalysedIssues, {"while_loop"}))),
                    FMul(FInt(2), FInt(CountOfType(AnalysedIssues, PatternTypes)))),
               FDivBy(FInt(CountOfType(AnalysedIssues, {"unused_import"})), <<2>>))

\* C12: total_energy_uj is lines_of_code*0.1 + function_count*0.5
\* + while_loop_count*2.0*10 + for_loop_count*1.5*10 + import_count*0.3 + the
\* inefficiency penalty, and it is the sum of the five returned categories,
\* the loops category being the while energy plus the for energy.
C12_TotalIsSumOfTerms ==
    EnergyReturned =>
       LET a == args.analysis_results
           v == ret.value
           while_term == FMul(FMul(FInt(a.while_loop_count), FInt(2)), FInt(10))
           for_term == FMul(FMul(FInt(a.for_loop_count), FDec(15, <<10>>)), FInt(10))
       IN /\ v.total_energy_uj =
                FAdd(FAdd(FAdd(FAdd(FAdd(FMul(FInt(a.lines_of_code), FDec(1, <<10>>)),
                                         FMul(FInt(a.function_count), FDec(5, <<10>>))),
                                    while_term),
                               for_term),
                          FMul(FInt(a.import_count), FDec(3, <<10>>))),
                     v.inefficiency_penalty)
          /\ v.loop_energy = FAdd(while_term, for_term)
          /\ v.total_energy_uj =
                FAdd(FAdd(FAdd(FAdd(v.base_energy, v.function_energy), v.loop_energy),
                          v.import_energy),
                     v.inefficiency_penalty)
          /\ v.energy_breakdown =
                [Base_Execution |-> v.base_energy, Functions |-> v.function_energy,
                 Loops |-> v.loop_energy, Imports |-> v.import_energy,
                 Inefficiencies |-> v.inefficiency_penalty]

\* an energy was returned to which every term contributes
C12_EveryTermCharged ==
    /\ EnergyReturned
    /\ args.analysis_results.lines_of_code > 0
    /\ args.analysis_results.function_count > 0
    /\ args.analysis_results.while_loop_count > 0
    /\ args.analysis_results.for_loop_count > 0
    /\ args.analysis_results.import_count > 0
    /\ ret.value.inefficiency_penalty # FZero

-----------------------------------------------------------------------------
(* Properties of AIRefactorEngine *)

\* the text is the optimized code of a source that parses, in which only
\* range(len()) loops were rewritten
OptimizedFromValid ==
    /\ "original_code" \in DOMAIN args
    /\ Parse(args.original_code).outcome = "ok"
    /\ code = apply_basic_optimizations(args.original_code, <<>>)
    /\ \A i \in DOMAIN args.original_code :
          Len(OptimizedLines(args.original_code)[i]) = 1 =>
             OptimizedLines(args.original_code)[i][1] = args.original_code[i]

\* C13: the optimized_full_code of a source that parses, the range(len())
\* rewrite being the only change, is analyzed without a parse error, also
\* when the body of the for loop follows the colon on the same line.
C13_OptimizedCodeParses ==
    [][(Analyze /\ OptimizedFromValid) => ret'.raised = "None"]_vars

-----------------------------------------------------------------------------
(* Properties of a CodeAnalyzer used again *)

\* C14: no analysis state survives a call: whatever analyze calls were made
\* before on the instance, those that raised SyntaxError included, the call
\* on a text ends as a call on that text ends on a new instance, and leaves
\* the instance as a new one.
C14_NoStateSurvives ==
    ret.op = "analyze" =>
       /\ \E fresh \in {analyze([issues |-> <<>>], code)} :
             ret.raised = fresh.raised /\ ret.value = fresh.results
       /\ self_issues = <<>>

\* issues were returned by an instance on which a call had raised and
\* another had returned before
C14_AfterRaisedAndReturned ==
    /\ ret.op = "analyze"
    /\ ret.raised = "None"
    /\ ret.value.issues # <<>>
    /\ calls = {"raised", "returned"}

-----------------------------------------------------------------------------
(* Properties of the lines of the issues *)

\* C15: every issue of a result has a line from 1 to the number of physical
\* lines of the source (the source split at its line feeds), whether the
\* line comes from the tree or from the line scan.
C15_IssueLinesInSource ==
    AnalyzeReturned =>
       \A i \in DOMAIN ret.value.issues :
          ret.value.issues[i].line \in 1..Len(code)

-----------------------------------------------------------------------------
(* Properties of the order of the security issues *)

\* C16: the security_issues of a result are ordered by line, non-decreasing,
\* also when the line patterns and the tree both report issues.
C16_SecurityIssuesSorted ==
    SecurityReturned =>
       \A i, j \in DOMAIN ret.value.security_issues :
          i < j => ret.value.security_issues[i].line <= ret.value.security_issues[j].line

-----------------------------------------------------------------------------
(* Properties of the unused imports *)

RECURSIVE TextFrom(_, _)
\* the source text from its physical line i on
TextFrom(src, i) ==
    IF i > Len(src) THEN <<>>
    ELSE IF i = Len(src) THEN Text(src[i])
    ELSE Text(src[i]) \o <<"\n">> \o TextFrom(src, i + 1)

\* the imported names of the tree: the statement, the place in it, the
\* declaration line and the effective name of each
ImportedNames(nodes) ==
    UNION {{[node |-> k, place |-> j, line |-> nodes[k].lineno,
             name |-> IF nodes[k].names[j].asname # "None"
                      THEN nodes[k].names[j].asname ELSE nodes[k].names[j].name]
              : j \in DOMAIN nodes[k].names}
             : k \in {n \in DOMAIN nodes : nodes[n].type = "Import"}}

-----------------------------------------------------------------------------
(* Properties of CarbonCalculator.get_efficiency_rating *)

\* get_efficiency_rating has returned a rating
RatingReturned == ret.op = "get_efficiency_rating" /\ ret.raised = "None"

\* the energy per line of code of the rated analysis results
EnergyPerLine ==
    FDivBy(calculate_energy_consumption(calc, args.analysis_results).value.total_energy_uj,
           <<args.analysis_results.lines_of_code>>)

\* the upper bounds of the ratings, ascending, and the rating past the last
RatingBounds ==
    << [bound |-> FDec(2, <<10>>), rating |-> "A++ (Extremely Efficient)"],
       [bound |-> FDec(5, <<10>>), rating |-> "A+ (Very Efficient)"],
       [bound |-> FInt(1), rating |-> "A (Efficient)"],
       [bound |-> FInt(2), rating |-> "B (Moderately Efficient)"],
       [bound |-> FInt(5), rating |-> "C (Below Average)"],
       [bound |-> FInt(10), rating |-> "D (Inefficient)"] >>

\* C18: the rating is that of the first bound, ascending, that the energy per
\* line e = total_energy_uj / lines_of_code does not exceed (e <= 0.2 A++,
\* e <= 0.5 A+, e <= 1.0 A, e <= 2.0 B, e <= 5.0 C, e <= 10.0 D) and F past
\* the last; an e on a bound has the better rating.
C18_RatingBands ==
    RatingReturned =>
       \E e \in {EnergyPerLine} :
          \E within \in {{i \in DOMAIN RatingBounds : ~FLess(RatingBounds[i].bound, e)}} :
             ret.value = IF within = {} THEN "F (Very Inefficient)"
                         ELSE RatingBounds[Min(within)].rating

\* an energy per line that is the bound 0.2 was rated A++
C18_OnBound ==
    /\ RatingReturned
    /\ EnergyPerLine = FDec(2, <<10>>)
    /\ ret.value = "A++ (Extremely Efficient)"

-----------------------------------------------------------------------------
(* Properties of the CarbonCalculator used again *)

\* C19: calculate_energy_consumption and calculate_carbon_footprint (the
\* equivalents with it) are pure: a call leaves the calculator's cost tables
\* and its argument as they were, and a call repeated on the same argument
\* returns what the call before it returned.
C19_CalculationsArePure ==
    [][/\ ret'.op = "calculate_energy_consumption" =>
             /\ calc' = calc
             /\ args'.analysis_results = Argument("analysis_results", "analyze")
             /\ ret.op = "calculate_energy_consumption" => ret' = ret
       /\ ret'.op = "calculate_carbon_footprint" =>
             /\ calc' = calc
             /\ args'.energy_consumption =
                   Argument("energy_consumption", "calculate_energy_consumption")
             /\ ret.op = "calculate_carbon_footprint" => ret' = ret]_vars

\* a carbon footprint with equivalents was calculated a second time from the
\* same energy
C19_CalculatedTwice ==
    /\ repeated
    /\ ret.op = "calculate_carbon_footprint"
    /\ DOMAIN ret.value.equivalent_metrics # {}
    /\ calc = CarbonCalculatorInit

-----------------------------------------------------------------------------
(* Properties of the complexity score *)

\* the line opens a function definition (sync or async), a while loop or a
\* for loop
OpensNesting(line) ==
    \E i \in DOMAIN line :
       /\ \A j \in 1..(i - 1) : IsSpaceTok(line[j])
       /\ \/ line[i] \in {"def", "while", "for"}
          \/ line[i] = "async" /\ i + 2 <= Len(line) /\ line[i + 2] = "def"

\* the deepest nesting of function definitions and loops in a source that
\* parses and whose blocks are their bodies, indented four spaces a level
NestingDepth(src) ==
    LET Deepest(lines) ==
          Max({0} \cup {1 + Indent(lines[i]) \div 4 :
                          i \in {j \in DOMAIN lines : OpensNesting(lines[j])}})
    IN  Deepest(TokenizerLines(src))

\* C20: the complexity score analyze returns is while_loop_count*3 +
\* for_loop_count + function_count*2 + nested_depth*2, nested_depth being the
\* deepest nesting of function definitions (sync or async), while loops and
\* for loops in the text.
C20_ComplexityFormula ==
    AnalyzeReturned =>
       ret.value.complexity_score =
          ret.value.while_loop_count * 3 + ret.value.for_loop_count
          + ret.value.function_count * 2 + NestingDepth(code) * 2

\* a for loop that holds an async function, followed by a while loop: the
\* depth counter is back at 0 when the while loop is entered
C20_NestedThenFlat ==
    /\ AnalyzeReturned
    /\ ret.value.for_loop_count = 1
    /\ ret.value.function_count = 1
    /\ ret.value.while_loop_count = 1
    /\ "async" \in Range(code[2])
    /\ NestingDepth(code) = 2
    /\ ret.value.complexity_score = 10

-----------------------------------------------------------------------------
(* Properties of the refactored code *)

RefactoredReturned == ret.op = "generate_refactored_code" /\ ret.raised = "None"

\* the line holds a for keyword and a range(len(...)) call
ForRangeLen(line) == "for" \in Range(line) /\ ReSearch(RangeLenRe, Text(line))

\* where the output for source line i starts when every line before it that
\* satisfies Rewritten became two lines
OutputAt(Rewritten(_), i) == i + Cardinality({k \in 1..(i - 1) : Rewritten(k)})

\* the explanatory comment, indented as the line
IsOptimizedComment(out_line, line) ==
    /\ Indent(out_line) = Indent(line)
    /\ Text(Strip(out_line)) =
          Text(<<"#", " ", "Optimized", ":", " ", "Use", " ", "enumerate", "(", ")", " ",
                 "or", " ", "direct", " ", "iteration">>)

\* 'for <index>, item in enumerate(<collection>):', indented as the line
IsEnumerateLoop(out_line, line) ==
    /\ Indent(out_line) = Indent(line)
    /\ \E a, b \in DOMAIN out_line :
          /\ a < b
          /\ Text(SubSeq(out_line, 1, a)) = Text([i \in 1..Indent(line) |-> " "] \o <<"for", " ">>)
          /\ SubSeq(out_line, b, Len(out_line)) = <<")", ":">>
          /\ \E c \in a..b :
                SubSeq(out_line, c, c + 7) =
                   <<",", " ", "item", " ", "in", " ", "enumerate", "(">>

\* C21: in optimized_full_code every source line with a for keyword and a
\* range(len(...)) call is replaced by the explanatory comment and a
\* 'for <index>, item in enumerate(<collection>):' line, both indented as the
\* source line; none is left as it was.
C21_EveryRangeLenForRewritten ==
    RefactoredReturned =>
       \A i \in DOMAIN code :
          ForRangeLen(code[i]) =>
             \E p \in {OutputAt(LAMBDA k : ForRangeLen(code[k]), i)} :
                /\ p + 1 <= Len(ret.value.optimized_full_code)
                /\ IsOptimizedComment(ret.value.optimized_full_code[p], code[i])
                /\ IsEnumerateLoop(ret.value.optimized_full_code[p + 1], code[i])

\* the range(len) rule rewrote source line i
RewrittenLine(i) == Len(OptimizedLines(code)[i]) = 2

\* the line holds '.append(' and the source line before it a for
AppendAfterFor(i) ==
    /\ Contains(Text(code[i]), Chars(".") \o Chars("append") \o Chars("("))
    /\ i > 1
    /\ "for" \in Range(code[i - 1])

\* C22: a line the range(len) rule did not rewrite is in optimized_full_code
\* unchanged, in order, but for a trailing comment when it holds '.append('
\* and the source line before it holds a for; a rewritten line has no such
\* comment.
C22_OtherLinesPassThrough ==
    RefactoredReturned =>
       \A i \in DOMAIN code :
          \E p \in {OutputAt(RewrittenLine, i)} :
             /\ ~RewrittenLine(i) =>
                   ret.value.optimized_full_code[p] =
                      IF AppendAfterFor(i)
                      THEN code[i] \o <<" ", " ", "#", " ", "Consider", " ", "using", " ",
                                        "list", " ", "comprehension">>
                      ELSE code[i]
             /\ RewrittenLine(i) =>
                   /\ "Consider" \notin Range(ret.value.optimized_full_code[p])
                   /\ "Consider" \notin Range(ret.value.optimized_full_code[p + 1])

\* the issue kinds and the key each kind's text block is stored under
IssueKinds ==
    {"while_loop", "inefficient_range_len", "unnecessary_list_conversion", "unused_import"}

SectionPrefix ==
    [while_loop |-> "while_loop_line_", inefficient_range_len |-> "range_len_line_",
     unused_import |-> "unused_import_line_"]

\* C23: for every issue kind present in the analysis results passed to
\* generate_refactored_code (while loop, range(len), list(range) conversion,
\* unused import) specific_improvements holds a text block of that kind.
C23_BlockForEveryKind ==
    RefactoredReturned =>
       \A n \in DOMAIN args.analysis_results.issues :
          \E type \in {args.analysis_results.issues[n].type} :
             type \in IssueKinds =>
                /\ type \in DOMAIN SectionPrefix
                /\ \E key \in DOMAIN ret.value.specific_improvements :
                      key[1] = SectionPrefix[type]

-----------------------------------------------------------------------------
(* Properties of the number of security issues on a line *)

\* the issues of the given subtype on line i
IssuesOn(issues, i, subtype) ==
    Cardinality({n \in DOMAIN issues : issues[n].line = i /\ issues[n].subtype = subtype})

\* the calls of the function named f written on the line: the name before an
\* opening bracket, not an attribute, outside a comment
CallsWritten(line, f) ==
    Cardinality({j \in DOMAIN line :
                   /\ line[j] = f
                   /\ j < Len(line) /\ line[j + 1] = "("
                   /\ (j = 1 \/ line[j - 1] # ".")
                   /\ \A i \in 1..j : line[i] # "#"})

\* C24: each regex pattern of analyze_security yields one issue on a line it
\* matches, however often it matches there, and none on another line; where
\* the source parses, the tree-based check yields one issue per call of eval,
\* exec or compile, so k calls on a line give k issues on that line.
C24_PerLineAndPerNode ==
    SecurityReturned =>
       \A i \in DOMAIN code :
          /\ \A p \in DOMAIN security_patterns :
                IssuesOn(ret.value.security_issues, i, security_patterns[p].subtype) =
                   IF ReSearch(compiled_patterns[p], LowerText(Text(code[i]))) THEN 1 ELSE 0
          /\ \A f \in {"eval", "exec", "compile"} :
                IssuesOn(ret.value.security_issues, i, "dangerous_function_" \o f) =
                   IF \E tree \in {Parse(code)} : tree.outcome = "ok"
                   THEN CallsWritten(code[i], f) ELSE 0

\* a line with two calls of eval and one of exec: one issue of each regex
\* pattern, two and one of the tree-based check
C24_TwoEvalsOnALine ==
    /\ SecurityReturned
    /\ \E i \in DOMAIN code :
          /\ CallsWritten(code[i], "eval") = 2
          /\ IssuesOn(ret.value.security_issues, i, "eval_usage") = 1
          /\ IssuesOn(ret.value.security_issues, i, "exec_usage") = 1
          /\ IssuesOn(ret.value.security_issues, i, "dangerous_function_eval") = 2
          /\ IssuesOn(ret.value.security_issues, i, "dangerous_function_exec") = 1

-----------------------------------------------------------------------------
(* Properties of the rating of a text without code *)

\* C25: get_efficiency_rating returns a rating for every result analyze can
\* produce, the result of a text without a line of code (lines_of_code = 0)
\* included; it does not fail with a division by zero.
C25_RatingAlwaysReturned ==
    (ret.op = "get_efficiency_rating" /\ "lines_of_code" \in DOMAIN args.analysis_results) =>
       /\ ret.raised = "None"
       /\ ret.value \in {"A++ (Extremely Efficient)", "A+ (Very Efficient)", "A (Efficient)",
                         "B (Moderately Efficient)", "C (Below Average)", "D (Inefficient)",
                         "F (Very Inefficient)"}

-----------------------------------------------------------------------------
(* Properties of the statistics of the saved analyses *)

\* the green scores saved for the user, in the order they were saved
SavedScores(username) ==
    LET Of(analyses) == [i \in DOMAIN analyses |-> analyses[i].green_score]
    IN Of(AnalysesOf(db.analyses, username))

\* C26: after n >= 1 analyses were saved for a user, get_user_stats reports
\* total_analyses = n, the best and the mean of the saved green scores, and
\* get_leaderboard lists the user: the statistics computed when an analysis
\* is saved are persisted.
C26_StatsPersisted ==
    /\ ret.op = "get_user_stats" =>
          \E scores \in {SavedScores(args.username)} :
             Len(scores) >= 1 =>
                /\ ret.raised = "None"
                /\ ret.value.total_analyses = Len(scores)
                /\ ret.value.best_score = Max(Range(scores))
                /\ ret.value.average_score =
                      FDivBy(FInt(SumOf(AnalysesOf(db.analyses, args.username), "green_score")),
                             <<Len(scores)>>)
    /\ ret.op = "get_leaderboard" =>
          \A username \in Usernames :
             SavedScores(username) # <<>> =>
                \E i \in DOMAIN ret.value : ret.value[i].username = username

-----------------------------------------------------------------------------
(* Properties of the history kept in file-storage mode *)

\* the last n elements of a sequence, all of it when it is shorter
LastOf(seq, n) == SubSeq(seq, Max({1, Len(seq) - n + 1}), Len(seq))

\* C27: in file-storage mode the history never holds more than 50 entries,
\* and they are the most recently added ones in insertion order, whoever
\* added them: an add_analysis leaves the last 50 of the history with the new
\* entry appended, a clear_history none.
C27_HistoryCapped ==
    /\ [](/\ Len(tracker.history_data) <= HistoryCap
          /\ \A i \in DOMAIN tracker.history_data :
                tracker.history_data[i].timestamp =
                   tracker.now - 1 - (Len(tracker.history_data) - i))
    /\ [][/\ ret'.op = "add_analysis" =>
               \E entry \in {tracker'.history_data[Len(tracker'.history_data)]} :
                  /\ entry.username = args'.username
                  /\ entry.green_score = args'.green_score
                  /\ entry.timestamp = tracker.now
                  /\ tracker'.history_data =
                        LastOf(Append(tracker.history_data, entry), HistoryCap)
          /\ ret'.op = "clear_history" => tracker'.history_data = <<>>]_vars

\* the history is full of ann's entries but for the oldest, bob's second one:
\* the first entry added has been dropped
C27_OldestDropped ==
    /\ ret.op = "add_analysis"
    /\ Len(tracker.history_data) = HistoryCap
    /\ tracker.history_data[1].timestamp = 1
    /\ tracker.history_data[1].username = "bob"
    /\ \A i \in 2..HistoryCap : tracker.history_data[i].username = "ann"

-----------------------------------------------------------------------------
(* Properties of the number of imports *)

-----------------------------------------------------------------------------
(* Properties of the imports below the first line *)

\* C30: an import statement that starts on line 2 or later has its names in
\* the text searched, so none of them is reported as unused, whatever else
\* the source holds; every unused-import issue has line 1.
C30_OnlyFirstLineReported ==
    AnalyzeReturned =>
       \E imports \in {ImportedNames(Parse(code).nodes)} :
          /\ \A imp \in imports :
                imp.line >= 2 =>
                   \A i \in DOMAIN ret.value.issues :
                      ~ /\ ret.value.issues[i].type = "unused_import"
                        /\ ret.value.issues[i].line = imp.line
                        /\ ret.value.issues[i].description = imp.name
          /\ \A i \in DOMAIN ret.value.issues :
                ret.value.issues[i].type = "unused_import" => ret.value.issues[i].line = 1

-----------------------------------------------------------------------------
(* Properties of the green score under one more issue *)

\* the analysis results with one more under the key
OneMore(analysis_results, key) ==
    IF key \in DOMAIN analysis_results
    THEN [analysis_results EXCEPT ![key] = @ + 1]
    ELSE (key :> 1) @@ analysis_results

\* C29: calculate_green_score does not rise when while_loop_count,
\* unused_imports_count, inefficient_patterns_count or complexity_score is
\* raised, the others held fixed.
C29_ScoreNeverRises ==
    GreenScoreReturned =>
       \A key \in {"while_loop_count", "unused_imports_count",
                   "inefficient_patterns_count", "complexity_score"} :
          calculate_green_score(OneMore(args, key)) <= ret.value

\* a score with a loop charged and the complexity at 20: one more unit of
\* complexity lowers it by 2
C29_AtComplexityThreshold ==
    /\ GreenScoreReturned
    /\ Get(args, "complexity_score", 0) = 20
    /\ Get(args, "while_loop_count", 0) = 1
    /\ ret.value = 85
    /\ calculate_green_score(OneMore(args, "complexity_score")) = 83

====
